---- MODULE Spec2Model ----
(***************************************************************************)
(* The Intcode emulator (src/src/intcode.rs, with the dispatch code that   *)
(* the make_op_code! macro of src/opcode-macro/src/lib.rs generates) and   *)
(* the Permutator and the amplifier networks of src/src/day7.rs, as state  *)
(* machines.                                                               *)
(*                                                                         *)
(* Memory is a Vec<i64>: a sequence whose cell with address a is           *)
(* memory[a + 1].  Option<T> is <<>> (None) or <<x>> (Some(x)).            *)
(***************************************************************************)
EXTENDS Integers, Sequences, FiniteSets, TLC

VARIABLES
    program,              \* the initial_memory slice the Emulator was constructed from
    source,               \* the items of the input iterator it was constructed with
    memory,               \* Emulator.memory
    instruction_pointer,  \* Emulator.instruction_pointer
    input_iter,           \* Emulator.input_iter: the items it has yet to yield
    calls,                \* the calls of step() so far: the state each found, and
                          \* what it returned
    driver,               \* who calls step(): "step" (the caller), "run"
                          \* (run_to_completion) or "iter" (the output iterator)
    run_result,           \* what run_to_completion returned (None: not yet)
    pulled,               \* what the pulls on the output iterator returned, in order
    array,                \* Permutator.array
    recursion_stack,      \* Permutator.recursion_stack
    values,               \* the Vec the Permutator was constructed from
    yielded,              \* the slices next() returned, in order
    exhausted,            \* calls of next() that returned None
    wiring,               \* "chain" (run_part_1), "feedback" (run_part_2) or "none"
    intcode_memory,       \* initial_memory of run_part_1 and run_part_2: the program
                          \* the emulators of a network are constructed from
    phases,               \* x, the permutation of this round of the while let
    emulators,            \* emulator_a .. emulator_e: memory, instruction_pointer
                          \* and the once(..) items their input has yet to yield
    emulator_e_a_loopback_pipe,  \* the VecDeque of run_part_2
    active,               \* the emulator whose output closure is running (0: none);
                          \* the ones after it wait in input_iter.next()
    reply,                \* what the closure of the emulator before the active
                          \* one has just returned to it (None: nothing)
    trace,                \* the calls of step() of this round, in the order they
                          \* returned: the emulator, the state and the queue it
                          \* found, the item its input yielded and what step()
                          \* returned
    outputs,              \* the items last() has taken from output_iterator
    progress,             \* "running", "done" or "panicked" (an unwrap() failed)
    thrust_output,        \* thrust_output of this round (None: not yet)
    highest_thrust,       \* highest_thrust
    rounds,               \* rounds of the while let completed
    previous              \* what the rounds before left: phases, outputs, emulators

emuVars == <<program, source, memory, instruction_pointer, input_iter, calls,
             driver, run_result, pulled>>
permVars == <<array, recursion_stack, values, yielded, exhausted>>
netVars == <<wiring, intcode_memory, phases, emulators, emulator_e_a_loopback_pipe,
             active, reply, trace, outputs, progress, thrust_output,
             highest_thrust, rounds, previous>>
vars == <<emuVars, permVars, netVars>>

-----------------------------------------------------------------------------
(* Bounds of the model. *)

\* most cells of a generated memory after an instruction's three parameter slots
MaxPad == 1
\* most calls of step() on an emulator with a generated memory
MaxSteps == 3
\* most calls of step() on an emulator that runs a program of Programs
MaxRun == 14
\* most pulls on one output iterator
MaxPulls == 4
\* most values a Permutator is built over
MaxN == 4
\* most calls of Permutator::next that return None
MaxExhausted == 2
\* most calls of step() in one round of a network
MaxTrace == 70
\* most rounds of the while let after the first
MaxRounds == 1

-----------------------------------------------------------------------------
(* Rust values. *)

None == <<>>
Some(x) == <<x>>
IsSome(o) == o # <<>>
Unwrap(o) == o[1]

Ok(v) == [tag |-> "Ok", val |-> v]
Err(e) == [tag |-> "Err", err |-> e]
IsOk(r) == r.tag = "Ok"
IsErr(r) == r.tag = "Err"

\* the remainder, were it to take the sign of the divisor
Rem_floored(a, b) == a % b
\* i64 division and remainder round toward zero
Div(a, b) == IF a >= 0 THEN a \div b ELSE -((-a) \div b)
Rem(a, b) == IF a >= 0 THEN a % b ELSE -((-a) % b)

InBounds(mem, a) == a >= 0 /\ a < Len(mem)
Get(mem, a) == mem[a + 1]
Set(mem, a, v) == [mem EXCEPT ![a + 1] = v]

-----------------------------------------------------------------------------
(* EmulatorError *)

InvalidInstruction(value_found, position) ==
    [kind |-> "InvalidInstruction", value_found |-> value_found, position |-> position]
NotEnoughParametersForInstruction(instruction, expected, found) ==
    [kind |-> "NotEnoughParametersForInstruction", instruction |-> instruction,
     expected |-> expected, found |-> found]
InvalidMemoryLocation(value_found, position) ==
    [kind |-> "InvalidMemoryLocation", value_found |-> value_found, position |-> position]
InstructionPointerOutOfBounds(position) ==
    [kind |-> "InstructionPointerOutOfBounds", position |-> position]
InvalidParameterMode(value_found, position) ==
    [kind |-> "InvalidParameterMode", value_found |-> value_found, position |-> position]
UnexpectedParameterModeForWritable(value_found, position) ==
    [kind |-> "UnexpectedParameterModeForWritable", value_found |-> value_found,
     position |-> position]
InputNonExistent == [kind |-> "InputNonExistent"]

(* EmulatorResult *)
Success == [kind |-> "Success"]
SuccessWithValue(v) == [kind |-> "SuccessWithValue", value |-> v]
Done == [kind |-> "Done"]

-----------------------------------------------------------------------------
(* The opcode table: make_op_code!(OpCode { ... }) *)

OpCodes == {"Add", "Multiply", "Input", "Output", "JumpIfTrue", "JumpIfFalse",
            "LessThan", "Equals", "End"}

to_opcode(instruction) ==
    CASE instruction = "Add" -> 1
      [] instruction = "Multiply" -> 2
      [] instruction = "Input" -> 3
      [] instruction = "Output" -> 4
      [] instruction = "JumpIfTrue" -> 5
      [] instruction = "JumpIfFalse" -> 6
      [] instruction = "LessThan" -> 7
      [] instruction = "Equals" -> 8
      [] instruction = "End" -> 99

\* the declared parameters of each variant, left to right
Parameters(instruction) ==
    CASE instruction \in {"Add", "Multiply", "LessThan", "Equals"} ->
             <<"ReadOnly", "ReadOnly", "Writable">>
      [] instruction = "Input" -> <<"Writable">>
      [] instruction = "Output" -> <<"ReadOnly">>
      [] instruction \in {"JumpIfTrue", "JumpIfFalse"} -> <<"ReadOnly", "ReadOnly">>
      [] instruction = "End" -> <<>>

parameter_amt(instruction) == Len(Parameters(instruction))

terminator(instruction) == instruction = "End"
outputs_value(instruction) == instruction = "Output"
has_input(instruction) == instruction = "Input"
has_instruction_pointer_override(instruction) ==
    instruction \in {"JumpIfTrue", "JumpIfFalse"}

-----------------------------------------------------------------------------
(* get_current_instruction *)

\* the match on instruction_value % 100
Decode(code) ==
    IF \E i \in OpCodes : to_opcode(i) = code
    THEN Some(CHOOSE i \in OpCodes : to_opcode(i) = code)
    ELSE None

\* the idx-th item of parameter_mode_iterator, built over
\* parameter_mode_digits = instruction_value / 100
parameter_mode(parameter_mode_digits, idx, ip) ==
    LET parameter_mode_digit == Rem(Div(parameter_mode_digits, 10 ^ idx), 10)
    IN  CASE parameter_mode_digit = 0 -> Ok("Position")
          [] parameter_mode_digit = 1 -> Ok("Immediate")
          [] OTHER -> Err(InvalidParameterMode(parameter_mode_digit, ip))

\* get_current_instruction, were a pointer outside the memory to find a cell
\* holding 0 there
get_current_instruction_reads_zero(mem, ip) ==
    LET instruction_value == IF InBounds(mem, ip) THEN Get(mem, ip) ELSE 0
        instruction == Decode(Rem(instruction_value, 100))
    IN  IF ~IsSome(instruction)
        THEN Err(InvalidInstruction(instruction_value, ip))
        ELSE Ok([instruction |-> Unwrap(instruction),
                 parameter_mode_digits |-> Div(instruction_value, 100)])

\* get_current_instruction, were the word to be read from the program the
\* emulator was constructed from
get_current_instruction_of_program(mem, ip) ==
    IF ~InBounds(mem, ip)
    THEN Err(InstructionPointerOutOfBounds(ip))
    ELSE LET instruction_value == Get(program, ip)
             instruction == Decode(Rem(instruction_value, 100))
         IN  IF ~IsSome(instruction)
             THEN Err(InvalidInstruction(instruction_value, ip))
             ELSE Ok([instruction |-> Unwrap(instruction),
                      parameter_mode_digits |-> Div(instruction_value, 100)])

\* get_current_instruction: Ok((instruction, parameter_mode_digits)), the
\* digits standing for the lazy parameter_mode_iterator
get_current_instruction(mem, ip) ==
    IF ~InBounds(mem, ip)
    THEN Err(InstructionPointerOutOfBounds(ip))
    ELSE LET instruction_value == Get(mem, ip)
             instruction == Decode(Rem(instruction_value, 100))
         IN  IF ~IsSome(instruction)
             THEN Err(InvalidInstruction(instruction_value, ip))
             ELSE Ok([instruction |-> Unwrap(instruction),
                      parameter_mode_digits |-> Div(instruction_value, 100)])

-----------------------------------------------------------------------------
(* The dispatcher of one variant: the bounds guard, the parameter
   initializers, the handler and the pointer update. *)

\* parameter_bounds_guard: the error it returns, if it returns one
parameter_bounds_guard(mem, ip, instruction) ==
    LET amt == parameter_amt(instruction)
    IN  IF amt > 0 /\ ip + 1 + amt >= Len(mem)
        THEN Some(NotEnoughParametersForInstruction(
                      to_opcode(instruction), amt, ip + 1 + amt - Len(mem)))
        ELSE None

\* parameter_initializer, were a ReadOnly Immediate parameter to be read
\* through its slot as a Position parameter is
parameter_initializer_always_position(mem, ip, idx, kind, parameter_mode_digits) ==
    LET mode == parameter_mode(parameter_mode_digits, idx, ip)
        parameter_location == ip + idx + 1
        address == Get(mem, parameter_location)
        error == InvalidMemoryLocation(address, parameter_location)
    IN  IF IsErr(mode) THEN mode
        ELSE IF mode.val = "Position" \/ kind = "ReadOnly"
        THEN IF ~InBounds(mem, address) THEN Err(error)
             ELSE IF kind = "ReadOnly" THEN Ok(Get(mem, address))
             ELSE Ok(address)
        ELSE Err(UnexpectedParameterModeForWritable(1, parameter_location))

\* parameter_initializer, were an Immediate Writable parameter to borrow its
\* own slot instead of failing
parameter_initializer_writes_slot(mem, ip, idx, kind, parameter_mode_digits) ==
    LET mode == parameter_mode(parameter_mode_digits, idx, ip)
        parameter_location == ip + idx + 1
        address == Get(mem, parameter_location)
        error == InvalidMemoryLocation(address, parameter_location)
    IN  IF IsErr(mode) THEN mode
        ELSE IF mode.val = "Position"
        THEN IF ~InBounds(mem, address) THEN Err(error)
             ELSE IF kind = "ReadOnly" THEN Ok(Get(mem, address))
             ELSE Ok(address)
        ELSE IF kind = "ReadOnly" THEN Ok(Get(mem, parameter_location))
             ELSE Ok(parameter_location)

\* parameter_initializer, were the error of an address out of range to name
\* the parameter index where the code names the slot
parameter_initializer_reports_index(mem, ip, idx, kind, parameter_mode_digits) ==
    LET mode == parameter_mode(parameter_mode_digits, idx, ip)
        parameter_location == ip + idx + 1
        address == Get(mem, parameter_location)
        error == InvalidMemoryLocation(address, idx)
    IN  IF IsErr(mode) THEN mode
        ELSE IF mode.val = "Position"
        THEN IF ~InBounds(mem, address) THEN Err(error)
             ELSE IF kind = "ReadOnly" THEN Ok(Get(mem, address))
             ELSE Ok(address)
        ELSE IF kind = "ReadOnly" THEN Ok(Get(mem, parameter_location))
             ELSE Err(UnexpectedParameterModeForWritable(1, parameter_location))

\* one parameter initializer: Ok(the value) of a ReadOnly parameter,
\* Ok(the address borrowed) of a Writable one
parameter_initializer(mem, ip, idx, kind, parameter_mode_digits) ==
    LET mode == parameter_mode(parameter_mode_digits, idx, ip)
        parameter_location == ip + idx + 1
        address == Get(mem, parameter_location)
        error == InvalidMemoryLocation(address, parameter_location)
    IN  IF IsErr(mode) THEN mode
        ELSE IF mode.val = "Position"
        THEN IF ~InBounds(mem, address) THEN Err(error)
             ELSE IF kind = "ReadOnly" THEN Ok(Get(mem, address))
             ELSE Ok(address)
        ELSE IF kind = "ReadOnly" THEN Ok(Get(mem, parameter_location))
             ELSE Err(UnexpectedParameterModeForWritable(1, parameter_location))

\* parameter_initializers, were every initializer to run and the error of the
\* last failing one to be returned
parameter_initializers_last_error(mem, ip, instruction, parameter_mode_digits) ==
    LET kinds == Parameters(instruction)
        each == [i \in 1..Len(kinds) |->
                    parameter_initializer(mem, ip, i - 1, kinds[i],
                                          parameter_mode_digits)]
        failed == {i \in 1..Len(kinds) : IsErr(each[i])}
    IN  IF failed = {}
        THEN Ok([i \in 1..Len(kinds) |-> each[i].val])
        ELSE each[CHOOSE i \in failed : \A j \in failed : i >= j]

\* the initializers in order: the first error, or all the parameters
parameter_initializers(mem, ip, instruction, parameter_mode_digits) ==
    LET kinds == Parameters(instruction)
        each == [i \in 1..Len(kinds) |->
                    parameter_initializer(mem, ip, i - 1, kinds[i],
                                          parameter_mode_digits)]
        failed == {i \in 1..Len(kinds) : IsErr(each[i])}
    IN  IF failed = {}
        THEN Ok([i \in 1..Len(kinds) |-> each[i].val])
        ELSE each[CHOOSE i \in failed : \A j \in failed : i <= j]

\* handle, were Input to take an error item of its input for the end of it
handle_error_as_exhausted(instruction, p, next_item) ==
    LET effect(write, output, new_instruction_pointer) ==
            Ok([write |-> write, output |-> output,
                new_instruction_pointer |-> new_instruction_pointer])
    IN  CASE instruction = "Add" -> effect(Some(<<p[3], p[1] + p[2]>>), None, None)
          [] instruction = "Multiply" -> effect(Some(<<p[3], p[1] * p[2]>>), None, None)
          [] instruction = "Input" ->
                 IF ~IsSome(next_item) THEN Err(InputNonExistent)
                 ELSE IF IsErr(Unwrap(next_item)) THEN Err(InputNonExistent)
                 ELSE effect(Some(<<p[1], Unwrap(next_item).val>>), None, None)
          [] instruction = "Output" -> effect(None, Some(p[1]), None)
          [] instruction = "JumpIfTrue" ->
                 effect(None, None, IF p[1] # 0 THEN Some(p[2]) ELSE None)
          [] instruction = "JumpIfFalse" ->
                 effect(None, None, IF p[1] = 0 THEN Some(p[2]) ELSE None)
          [] instruction = "LessThan" ->
                 effect(Some(<<p[3], IF p[1] < p[2] THEN 1 ELSE 0>>), None, None)
          [] instruction = "Equals" ->
                 effect(Some(<<p[3], IF p[1] = p[2] THEN 1 ELSE 0>>), None, None)
          [] instruction = "End" -> effect(None, None, None)

\* handle, were LessThan to compare with <= instead of <
handle_less_or_equal(instruction, p, next_item) ==
    LET effect(write, output, new_instruction_pointer) ==
            Ok([write |-> write, output |-> output,
                new_instruction_pointer |-> new_instruction_pointer])
    IN  CASE instruction = "Add" -> effect(Some(<<p[3], p[1] + p[2]>>), None, None)
          [] instruction = "Multiply" -> effect(Some(<<p[3], p[1] * p[2]>>), None, None)
          [] instruction = "Input" ->
                 IF ~IsSome(next_item) THEN Err(InputNonExistent)
                 ELSE IF IsErr(Unwrap(next_item)) THEN Err(Unwrap(next_item).err)
                 ELSE effect(Some(<<p[1], Unwrap(next_item).val>>), None, None)
          [] instruction = "Output" -> effect(None, Some(p[1]), None)
          [] instruction = "JumpIfTrue" ->
                 effect(None, None, IF p[1] # 0 THEN Some(p[2]) ELSE None)
          [] instruction = "JumpIfFalse" ->
                 effect(None, None, IF p[1] = 0 THEN Some(p[2]) ELSE None)
          [] instruction = "LessThan" ->
                 effect(Some(<<p[3], IF p[1] <= p[2] THEN 1 ELSE 0>>), None, None)
          [] instruction = "Equals" ->
                 effect(Some(<<p[3], IF p[1] = p[2] THEN 1 ELSE 0>>), None, None)
          [] instruction = "End" -> effect(None, None, None)

\* the handler of one variant on its resolved parameters; next_item is what
\* input_iter.next() returns if the handler calls it.  Ok: the cell written
\* (<<address, value>>), the value output and the pointer override.
handle(instruction, p, next_item) ==
    LET effect(write, output, new_instruction_pointer) ==
            Ok([write |-> write, output |-> output,
                new_instruction_pointer |-> new_instruction_pointer])
    IN  CASE instruction = "Add" -> effect(Some(<<p[3], p[1] + p[2]>>), None, None)
          [] instruction = "Multiply" -> effect(Some(<<p[3], p[1] * p[2]>>), None, None)
          [] instruction = "Input" ->
                 IF ~IsSome(next_item) THEN Err(InputNonExistent)
                 ELSE IF IsErr(Unwrap(next_item)) THEN Err(Unwrap(next_item).err)
                 ELSE effect(Some(<<p[1], Unwrap(next_item).val>>), None, None)
          [] instruction = "Output" -> effect(None, Some(p[1]), None)
          [] instruction = "JumpIfTrue" ->
                 effect(None, None, IF p[1] # 0 THEN Some(p[2]) ELSE None)
          [] instruction = "JumpIfFalse" ->
                 effect(None, None, IF p[1] = 0 THEN Some(p[2]) ELSE None)
          [] instruction = "LessThan" ->
                 effect(Some(<<p[3], IF p[1] < p[2] THEN 1 ELSE 0>>), None, None)
          [] instruction = "Equals" ->
                 effect(Some(<<p[3], IF p[1] = p[2] THEN 1 ELSE 0>>), None, None)
          [] instruction = "End" -> effect(None, None, None)

\* instruction_pointer_update, were it to ignore the override of a jump
instruction_pointer_update_without_override(instruction, ip, new_instruction_pointer) ==
    IF terminator(instruction) THEN Ok(None)
    ELSE Ok(Some(ip + parameter_amt(instruction) + 1))

\* instruction_pointer_update, were a negative override to count as none
instruction_pointer_update_ignores_negative(instruction, ip, new_instruction_pointer) ==
    LET instruction_offset == parameter_amt(instruction) + 1
    IN  IF terminator(instruction) THEN Ok(None)
        ELSE IF has_instruction_pointer_override(instruction)
                  /\ IsSome(new_instruction_pointer)
                  /\ Unwrap(new_instruction_pointer) >= 0
        THEN Ok(Some(Unwrap(new_instruction_pointer)))
        ELSE Ok(Some(ip + instruction_offset))

\* instruction_pointer_update: Ok(Option<usize>), or the error of a negative
\* override
instruction_pointer_update(instruction, ip, new_instruction_pointer) ==
    LET instruction_offset == parameter_amt(instruction) + 1
    IN  IF terminator(instruction) THEN Ok(None)
        ELSE IF has_instruction_pointer_override(instruction)
        THEN IF IsSome(new_instruction_pointer)
             THEN IF Unwrap(new_instruction_pointer) < 0
                  THEN Err(InvalidMemoryLocation(Unwrap(new_instruction_pointer), 0))
                  ELSE Ok(Some(Unwrap(new_instruction_pointer)))
             ELSE Ok(Some(ip + instruction_offset))
        ELSE Ok(Some(ip + instruction_offset))

\* what a call of run leaves: its return value, the memory, and whether it
\* called input_iter.next()
Ran(ret, mem, called_next) == [ret |-> ret, memory |-> mem, called_next |-> called_next]

\* assign, were a write to the last cell to push a cell onto the Vec
assign_pushes(mem, write) ==
    IF ~IsSome(write) THEN mem
    ELSE IF Unwrap(write)[1] = Len(mem) - 1 THEN Append(mem, Unwrap(write)[2])
    ELSE Set(mem, Unwrap(write)[1], Unwrap(write)[2])

\* the assignment through the borrowed *dest
assign(mem, write) ==
    IF IsSome(write) THEN Set(mem, Unwrap(write)[1], Unwrap(write)[2]) ELSE mem

\* Ok((instruction_pointer_update, output)), after the handler returned
dispatched(mem, updated, output, called_next) ==
    IF IsErr(updated) THEN Ran(updated, mem, called_next)
    ELSE Ran(Ok([next_instruction_offset |-> updated.val, output |-> output]),
             mem, called_next)

\* statement_runner: the handler's result, with its ? operator
statement_runner(mem, ip, instruction, handled) ==
    IF IsErr(handled) THEN Ran(handled, mem, has_input(instruction))
    ELSE dispatched(assign(mem, handled.val.write),
                    instruction_pointer_update(instruction, ip,
                                               handled.val.new_instruction_pointer),
                    handled.val.output,
                    has_input(instruction))

\* initialized, were Input to take its value before its destination is
\* resolved
initialized_pulls_first(mem, ip, instruction, params, next_item) ==
    IF IsErr(params) THEN Ran(params, mem, has_input(instruction))
    ELSE statement_runner(mem, ip, instruction,
                          handle(instruction, params.val, next_item))

\* the parameter initializers' results, with their ? operator
initialized(mem, ip, instruction, params, next_item) ==
    IF IsErr(params) THEN Ran(params, mem, FALSE)
    ELSE statement_runner(mem, ip, instruction,
                          handle(instruction, params.val, next_item))

\* one arm of the match of run: guard, initializers, handler, pointer update
variant_handler_dispatcher(mem, ip, instruction, parameter_mode_digits, next_item) ==
    IF IsSome(parameter_bounds_guard(mem, ip, instruction))
    THEN Ran(Err(Unwrap(parameter_bounds_guard(mem, ip, instruction))), mem, FALSE)
    ELSE initialized(mem, ip, instruction,
                     parameter_initializers(mem, ip, instruction,
                                            parameter_mode_digits),
                     next_item)

\* run, after get_current_instruction(..)?
decoded(mem, ip, current, next_item) ==
    IF IsErr(current) THEN Ran(current, mem, FALSE)
    ELSE variant_handler_dispatcher(mem, ip, current.val.instruction,
                                    current.val.parameter_mode_digits, next_item)

\* OpCode::run
run(mem, ip, next_item) ==
    decoded(mem, ip, get_current_instruction(mem, ip), next_item)

\* step_map, were it to drop the value an Output produced
step_map_drops_output(ran, ip) ==
    IF IsErr(ran.ret)
    THEN [ret |-> ran.ret, memory |-> ran.memory, instruction_pointer |-> ip,
          called_next |-> ran.called_next]
    ELSE [ret |-> IF ~IsSome(ran.ret.val.next_instruction_offset) THEN Ok(Done)
                  ELSE Ok(Success),
          memory |-> ran.memory,
          instruction_pointer |-> IF IsSome(ran.ret.val.next_instruction_offset)
                                  THEN Unwrap(ran.ret.val.next_instruction_offset)
                                  ELSE ip,
          called_next |-> ran.called_next]

\* step_map, were it to move the pointer past an End instruction
step_map_past_end(ran, ip) ==
    IF IsErr(ran.ret)
    THEN [ret |-> ran.ret, memory |-> ran.memory, instruction_pointer |-> ip,
          called_next |-> ran.called_next]
    ELSE [ret |-> IF ~IsSome(ran.ret.val.next_instruction_offset) THEN Ok(Done)
                  ELSE IF IsSome(ran.ret.val.output)
                  THEN Ok(SuccessWithValue(Unwrap(ran.ret.val.output)))
                  ELSE Ok(Success),
          memory |-> ran.memory,
          instruction_pointer |-> IF IsSome(ran.ret.val.next_instruction_offset)
                                  THEN Unwrap(ran.ret.val.next_instruction_offset)
                                  ELSE ip + 1,
          called_next |-> ran.called_next]

\* the closure Emulator::step maps over the result of run
step_map(ran, ip) ==
    IF IsErr(ran.ret)
    THEN [ret |-> ran.ret, memory |-> ran.memory, instruction_pointer |-> ip,
          called_next |-> ran.called_next]
    ELSE [ret |-> IF ~IsSome(ran.ret.val.next_instruction_offset) THEN Ok(Done)
                  ELSE IF IsSome(ran.ret.val.output)
                  THEN Ok(SuccessWithValue(Unwrap(ran.ret.val.output)))
                  ELSE Ok(Success),
          memory |-> ran.memory,
          instruction_pointer |-> IF IsSome(ran.ret.val.next_instruction_offset)
                                  THEN Unwrap(ran.ret.val.next_instruction_offset)
                                  ELSE ip,
          called_next |-> ran.called_next]

\* Emulator::step on (memory, pointer): what it returns and what it leaves
step(mem, ip, next_item) == step_map(run(mem, ip, next_item), ip)

\* Iterator::next on a once(..).chain(once(..)) input: the item, and the rest
next(iter) == IF iter = <<>> THEN None ELSE Some(Head(iter))
\* advance, were the iterator to stay where it is
advance_stays(iter) == iter
advance(iter) == IF iter = <<>> THEN iter ELSE Tail(iter)

-----------------------------------------------------------------------------
(* Emulator: the state machine. *)

\* Emulator::new(initial_memory, input_iter), driven by d
New(initial_memory, input, d) ==
    /\ program = initial_memory
    /\ source = input
    /\ memory = initial_memory
    /\ instruction_pointer = 0
    /\ input_iter = input
    /\ calls = <<>>
    /\ driver = d
    /\ run_result = None
    /\ pulled = <<>>

\* what self.step() computes on the current state
Stepped == step(memory, instruction_pointer, next(input_iter))

\* one call of self.step(), which computes stepped
CallStep(stepped) ==
    /\ memory' = stepped.memory
    /\ instruction_pointer' = stepped.instruction_pointer
    /\ input_iter' = IF stepped.called_next THEN advance(input_iter) ELSE input_iter
    /\ calls' = Append(calls, [memory |-> memory,
                               instruction_pointer |-> instruction_pointer,
                               input_iter |-> input_iter,
                               ret |-> stepped.ret])
    /\ UNCHANGED <<program, source>>

\* no network of emulators
NoNetwork ==
    /\ wiring = "none"
    /\ intcode_memory = <<>>
    /\ phases = <<>>
    /\ emulators = <<>>
    /\ emulator_e_a_loopback_pipe = <<>>
    /\ active = 0
    /\ reply = <<>>
    /\ trace = <<>>
    /\ outputs = <<>>
    /\ progress = "done"
    /\ thrust_output = <<>>
    /\ highest_thrust = <<>>
    /\ rounds = 0
    /\ previous = <<>>

\* no Permutator
NoPermutator ==
    /\ array = <<>>
    /\ recursion_stack = <<>>
    /\ values = <<>>
    /\ yielded = <<>>
    /\ exhausted = 0

-----------------------------------------------------------------------------
(* Generated memories: an optional jump over a three-cell prefix, then one
   instruction word, up to three parameter cells and up to MaxPad more. *)

Words == {1, 101, 1001, 1101, 10001, 201, 2, 1102, 10002, 3, 103, 4, 104,
          5, 105, 1005, 1105, 6, 1106, 7, 1107, 10007, 8, 1108, 10008,
          99, 199, 0, 9, -1, 299, 2104, 2001, -199}
Data == {-1, 0, 1, 4, 99}
Padding == {4, 99}
Prefixes == {<<>>, <<1105, 1, 3>>}
Inputs == {<<>>, <<Ok(7)>>}

SeqsUpTo(S, n) == UNION {[1..k -> S] : k \in 0..n}

Bodies ==
    {<<>>} \cup
    {<<w>> \o ps : w \in Words, ps \in SeqsUpTo(Data, 2)} \cup
    {<<w>> \o ps \o pad : w \in Words, ps \in [1..3 -> Data],
                          pad \in SeqsUpTo(Padding, MaxPad)}

InitGenerated ==
    /\ \E prefix \in Prefixes, body \in Bodies, input \in Inputs :
           New(prefix \o body, input, "step")
    /\ NoPermutator
    /\ NoNetwork

-----------------------------------------------------------------------------
(* The programs of the tests (intcode.rs, mod tests), the amplifier program
   of day 7 and three small programs, each run on the inputs of the tests. *)

test_example == <<1, 9, 10, 3, 2, 3, 11, 0, 99, 30, 40, 50>>
test_add == <<1, 0, 0, 0, 99>>
test_multiply_2 == <<2, 4, 4, 5, 99, 0>>
test_overriding_future_instructions == <<1, 1, 1, 4, 99, 5, 6, 0, 99>>
test_parameter_modes == <<1002, 4, 3, 4, 33>>
test_input_output == <<3, 0, 4, 0, 99>>
test_negatives == <<1101, 100, -1, 4, 0>>
test_equals_with_position_mode == <<3, 9, 8, 9, 10, 9, 4, 9, 99, -1, 8>>
test_less_than_with_position_mode == <<3, 9, 7, 9, 10, 9, 4, 9, 99, -1, 8>>
test_equals_with_immediate_mode == <<3, 3, 1108, -1, 8, 3, 4, 3, 99>>
test_less_than_with_immediate_mode == <<3, 3, 1107, -1, 8, 3, 4, 3, 99>>
test_jumps_with_position_mode ==
    <<3, 12, 6, 12, 15, 1, 13, 14, 13, 4, 13, 99, -1, 0, 1, 9>>
test_jumps_with_immediate_mode == <<3, 3, 1105, -1, 9, 1101, 0, 0, 12, 4, 12, 99, 1>>
test_long_example_with_jumps ==
    <<3, 21, 1008, 21, 8, 20, 1005, 20, 22, 107, 8, 21, 20, 1006, 20, 31, 1106, 0,
      36, 98, 0, 0, 1002, 21, 125, 20, 4, 20, 1105, 1, 46, 104, 999, 1105, 1, 46,
      1101, 1000, 1, 20, 4, 20, 1105, 1, 46, 98, 99>>
\* the amplifier program of day 7, part 1: two Inputs, one Output
amplifier == <<3, 15, 3, 16, 1002, 16, 10, 16, 1, 16, 15, 15, 4, 15, 99, 0, 0>>
\* reads a value, writes it out, and starts again
echo_loop == <<3, 7, 4, 7, 1105, 1, 0, 0, 99>>
\* jumps to itself
self_jump == <<1105, 1, 0, 99>>
\* writes 11 out, adds 20 and 2, writes the sum out and halts
two_outputs == <<104, 11, 1101, 20, 2, 9, 4, 9, 99, 0>>
\* jumps to the address after its last cell
jump_past_end == <<1105, 1, 4, 99>>
\* no cell at all
empty_memory == <<>>

Programs == {test_example, test_add, test_multiply_2,
             test_overriding_future_instructions, test_parameter_modes,
             test_input_output, test_negatives, test_equals_with_position_mode,
             test_less_than_with_position_mode, test_equals_with_immediate_mode,
             test_less_than_with_immediate_mode, test_jumps_with_position_mode,
             test_jumps_with_immediate_mode, test_long_example_with_jumps,
             amplifier, echo_loop, self_jump, two_outputs,
             jump_past_end, empty_memory}

TestInputs == {<<>>, <<Ok(-1)>>, <<Ok(0)>>, <<Ok(2)>>, <<Ok(7)>>, <<Ok(8)>>,
               <<Ok(9)>>, <<Ok(1337)>>, <<Ok(4), Ok(0)>>, <<Ok(5), Ok(6), Ok(5)>>}

InitPrograms ==
    /\ \E p \in Programs, input \in TestInputs, d \in {"step", "run", "iter"} :
           New(p, input, d)
    /\ NoPermutator
    /\ NoNetwork

-----------------------------------------------------------------------------
(* The callers of step(). *)

\* most calls of step() the model follows on the current emulator
StepBound == IF program \in Programs THEN MaxRun ELSE MaxSteps

\* the caller calls emulator.step()
Step ==
    /\ driver = "step"
    /\ Len(calls) < StepBound
    /\ CallStep(Stepped)
    /\ UNCHANGED <<driver, run_result, pulled, permVars, netVars>>

\* run_to_completion, were it to step once instead of looping
run_to_completion_once(stepped) ==
    IF IsErr(stepped.ret) THEN Some(stepped.ret)
    ELSE Some(Ok(Get(stepped.memory, 0)))

\* run_to_completion: what the loop does with what step() returned:
\* None to go round again, or Some(the value it returns)
run_to_completion(stepped) ==
    IF IsErr(stepped.ret) THEN Some(stepped.ret)
    ELSE IF stepped.ret.val # Done THEN None
    ELSE Some(Ok(Get(stepped.memory, 0)))

\* one round of the loop of run_to_completion
RunToCompletion ==
    /\ driver = "run"
    /\ run_result = None
    /\ Len(calls) < StepBound
    /\ CallStep(Stepped)
    /\ run_result' = run_to_completion(Stepped)
    /\ UNCHANGED <<driver, pulled, permVars, netVars>>

\* into_output_iter, were Success to end the loop as Done does
into_output_iter_stops_early(ret) ==
    IF IsErr(ret) THEN Some(Some(ret))
    ELSE CASE ret.val.kind = "Done" -> Some(None)
           [] ret.val.kind = "Success" -> Some(None)
           [] ret.val.kind = "SuccessWithValue" -> Some(Some(Ok(ret.val.value)))

\* into_output_iter, were an error of step() to end the sequence
into_output_iter_error_ends(ret) ==
    IF IsErr(ret) THEN Some(None)
    ELSE CASE ret.val.kind = "Done" -> Some(None)
           [] ret.val.kind = "Success" -> None
           [] ret.val.kind = "SuccessWithValue" -> Some(Some(Ok(ret.val.value)))

\* the closure of into_output_iter: what the loop does with what step()
\* returned: None to go round again, or Some(the item the pull returns);
\* Pull appends that item, if there is one, to pulled
into_output_iter(ret) ==
    IF IsErr(ret) THEN Some(Some(ret))
    ELSE CASE ret.val.kind = "Done" -> Some(None)
           [] ret.val.kind = "Success" -> None
           [] ret.val.kind = "SuccessWithValue" -> Some(Some(Ok(ret.val.value)))

\* one round of the loop of a pull on the output iterator; the consumer pulls
\* again when the pull before has returned
Pull ==
    /\ driver = "iter"
    /\ Len(pulled) < MaxPulls
    /\ Len(calls) < StepBound
    /\ CallStep(Stepped)
    /\ pulled' = pulled \o into_output_iter(Stepped.ret)
    /\ UNCHANGED <<driver, run_result, permVars, netVars>>

-----------------------------------------------------------------------------
(* The emulator, on a generated memory or on a program. *)

Init == InitGenerated \/ InitPrograms

Next == Step \/ RunToCompletion \/ Pull

Spec == Init /\ [][Next]_vars

-----------------------------------------------------------------------------
(* Permutator (day7.rs).  A frame of recursion_stack is <<start, swap_index,
   explored>>; array positions count from 0. *)

\* no Emulator
NoEmulator ==
    /\ program = <<>>
    /\ source = <<>>
    /\ memory = <<>>
    /\ instruction_pointer = 0
    /\ input_iter = <<>>
    /\ calls = <<>>
    /\ driver = "none"
    /\ run_result = None
    /\ pulled = <<>>

\* Vec::swap
swap(arr, a, b) == [arr EXCEPT ![a + 1] = arr[b + 1], ![b + 1] = arr[a + 1]]

\* Vec::pop and Vec::push on recursion_stack
top(stack) == stack[Len(stack)]
pop(stack) == SubSeq(stack, 1, Len(stack) - 1)
push(stack, frame) == Append(stack, frame)

\* what one round of the loop of next() leaves: ret is None when the loop
\* goes round again, else Some(what next() returns)
Round(ret, arr, stack) == [ret |-> ret, array |-> arr, recursion_stack |-> stack]

\* the round on a popped frame, were the explored branch not to swap back
popped_without_undo(arr, stack, start, swap_index, explored) ==
    IF start + 1 >= Len(arr) THEN Round(Some(Some(arr)), arr, stack)
    ELSE IF swap_index >= Len(arr) THEN Round(None, arr, stack)
    ELSE IF ~explored
    THEN Round(None, swap(arr, start, swap_index),
               push(push(stack, <<start, swap_index, TRUE>>),
                    <<start + 1, start + 1, FALSE>>))
    ELSE Round(None, arr, push(stack, <<start, swap_index + 1, FALSE>>))

\* the round on a popped frame, were the unexplored branch to push the frame
\* of the next swap_index at once, below the two it pushes
popped_pushes_sibling(arr, stack, start, swap_index, explored) ==
    IF start + 1 >= Len(arr) THEN Round(Some(Some(arr)), arr, stack)
    ELSE IF swap_index >= Len(arr) THEN Round(None, arr, stack)
    ELSE IF ~explored
    THEN Round(None, swap(arr, start, swap_index),
               push(push(push(stack, <<start, swap_index + 1, FALSE>>),
                         <<start, swap_index, TRUE>>),
                    <<start + 1, start + 1, FALSE>>))
    ELSE Round(None, swap(arr, start, swap_index), stack)

\* the round on the frame (start, swap_index, explored) popped off the stack
popped(arr, stack, start, swap_index, explored) ==
    IF start + 1 >= Len(arr) THEN Round(Some(Some(arr)), arr, stack)
    ELSE IF swap_index >= Len(arr) THEN Round(None, arr, stack)
    ELSE IF ~explored
    THEN Round(None, swap(arr, start, swap_index),
               push(push(stack, <<start, swap_index, TRUE>>),
                    <<start + 1, start + 1, FALSE>>))
    ELSE Round(None, swap(arr, start, swap_index),
               push(stack, <<start, swap_index + 1, FALSE>>))

\* loop, were next() to start over after it has returned None
loop_restarts(arr, stack) ==
    IF stack = <<>> THEN Round(Some(None), arr, push(stack, <<0, 0, FALSE>>))
    ELSE popped(arr, pop(stack), top(stack)[1], top(stack)[2], top(stack)[3])

\* one round of the loop of Permutator::next
loop(arr, stack) ==
    IF stack = <<>> THEN Round(Some(None), arr, stack)
    ELSE popped(arr, pop(stack), top(stack)[1], top(stack)[2], top(stack)[3])

\* Permutator::new(array)
PermutatorNew(vec) ==
    /\ array = vec
    /\ recursion_stack = <<<<0, 0, FALSE>>>>
    /\ values = vec
    /\ yielded = <<>>
    /\ exhausted = 0

\* a round of the loop of next(); the caller calls next() again when the call
\* before has returned
PermutatorRound(round) ==
    /\ array' = round.array
    /\ recursion_stack' = round.recursion_stack
    /\ yielded' = IF IsSome(round.ret) /\ IsSome(Unwrap(round.ret))
                  THEN Append(yielded, Unwrap(Unwrap(round.ret)))
                  ELSE yielded
    /\ exhausted' = IF round.ret = Some(None) THEN exhausted + 1 ELSE exhausted
    /\ UNCHANGED values

PermutatorNext ==
    /\ driver = "none"
    /\ exhausted < MaxExhausted
    /\ PermutatorRound(loop(array, recursion_stack))
    /\ UNCHANGED <<emuVars, netVars>>

\* the vectors of run_part_1 and run_part_2, (0..=4) and (5..=9), cut to n
\* values, and a descending one
Vecs(n) == {[i \in 1..n |-> i - 1], [i \in 1..n |-> i + 4], [i \in 1..n |-> 2 * (n - i)]}

InitPermutator ==
    /\ \E n \in 0..MaxN : \E vec \in Vecs(n) : PermutatorNew(vec)
    /\ NoEmulator
    /\ NoNetwork

NextPermutator == PermutatorNext

SpecPermutator == InitPermutator /\ [][NextPermutator]_vars

-----------------------------------------------------------------------------
(* The amplifier networks of run_part_1 (a chain) and run_part_2 (a chain
   whose last output iterator also feeds a queue the first emulator reads).
   The input of an emulator is once(Ok(phase)).chain(the output closure of
   the emulator before it), so the Input handler of one emulator calls
   step() of the one before it: the emulators after the active one are
   inside input_iter.next(), and a call of step() that needs an item of the
   emulator before it takes two actions, the call and the return. *)

\* emulator_a .. emulator_e
Amplifiers == 5
\* let initial_input = 0
initial_input == 0

\* Emulator::new(&initial_memory, once(..).chain(..)): onces are the once
\* items at the front of its input
Emulator(mem, onces) ==
    [memory |-> mem, instruction_pointer |-> 0, input_iter |-> onces]

\* the emulators, were emulator_a to be given the initial input before its
\* phase
Wired_input_first(mem, x) ==
    [k \in 1..Amplifiers |->
        Emulator(mem, IF k = 1 THEN <<Ok(initial_input), Ok(x[1])>>
                      ELSE <<Ok(x[k])>>)]

\* emulator_a .. emulator_e as the body of the while let constructs them
Wired(mem, x) ==
    [k \in 1..Amplifiers |->
        Emulator(mem, IF k = 1 THEN <<Ok(x[1]), Ok(initial_input)>>
                      ELSE <<Ok(x[k])>>)]

\* RefCell::new(VecDeque::new()), were the queue of the round before kept
loopback_pipe_of_round_before == emulator_e_a_loopback_pipe
\* RefCell::new(VecDeque::new())
new_loopback_pipe == <<>>

\* loopback_iter, were it to take the item at the back of the queue
loopback_iter_back(pipe) == IF pipe = <<>> THEN None ELSE Some(pipe[Len(pipe)])
\* loopback_iter: pop_front on the queue
loopback_iter(pipe) == IF pipe = <<>> THEN None ELSE Some(Head(pipe))
pop_front(pipe) == IF pipe = <<>> THEN pipe ELSE Tail(pipe)

\* the step() of emulator k that is about to run calls input_iter.next()
Wants(k) ==
    step(emulators[k].memory, emulators[k].instruction_pointer, None).called_next

\* FromUpstream, were Chain::next to call the output closure of the emulator
\* before k while the phase is still to be taken
FromUpstream_before_phase(k) == k > 1
\* Chain::next finds the once items used up and calls the output closure of
\* the emulator before k
FromUpstream(k) == emulators[k].input_iter = <<>> /\ k > 1
\* Chain::next of emulator_a finds the once items used up
FromPipe(k) == emulators[k].input_iter = <<>> /\ k = 1

\* what input_iter.next() of emulator k yields when it calls no other emulator
Yields(k) ==
    IF emulators[k].input_iter # <<>> THEN Some(Head(emulators[k].input_iter))
    ELSE IF wiring = "feedback" /\ k = 1
    THEN loopback_iter(emulator_e_a_loopback_pipe)
    ELSE None

\* last().unwrap().unwrap() on the items taken: None when an unwrap() panics
last_unwrap_unwrap(items) ==
    IF items = <<>> THEN None
    ELSE IF IsErr(items[Len(items)]) THEN None
    ELSE Some(items[Len(items)].val)

\* highest_thrust.map_or(Some(thrust_output), |current| Some(max(..)))
map_or_max(highest, thrust) ==
    IF ~IsSome(thrust) THEN highest
    ELSE IF ~IsSome(highest) THEN thrust
    ELSE IF Unwrap(thrust) > Unwrap(highest) THEN thrust ELSE highest

\* store, were the emulators to share one memory
store_shared(ems, k, stepped, rest) ==
    [j \in DOMAIN ems |->
        IF j = k THEN [memory |-> stepped.memory,
                       instruction_pointer |-> stepped.instruction_pointer,
                       input_iter |-> rest]
        ELSE [ems[j] EXCEPT !.memory = stepped.memory]]

\* self.memory and self.instruction_pointer of emulator k after its step(),
\* and what is left of its once items
store(ems, k, stepped, rest) ==
    [ems EXCEPT ![k] = [memory |-> stepped.memory,
                        instruction_pointer |-> stepped.instruction_pointer,
                        input_iter |-> rest]]

\* the output closure of emulator k after its step(): with no item the while
\* goes round again; else the closure returns the item, to input_iter.next()
\* of emulator k + 1 or, from emulator_e, to last() (in run_part_2 through
\* the map that pushes it onto the queue); None ends last()
Returns(k, item, pipe) ==
    IF ~IsSome(item)
    THEN [active |-> k, reply |-> None, outputs |-> outputs, pipe |-> pipe,
          ended |-> FALSE]
    ELSE IF k < Amplifiers
    THEN [active |-> k + 1, reply |-> item, outputs |-> outputs, pipe |-> pipe,
          ended |-> FALSE]
    ELSE IF Unwrap(item) = None
    THEN [active |-> 0, reply |-> None, outputs |-> outputs, pipe |-> pipe,
          ended |-> TRUE]
    ELSE [active |-> k, reply |-> None,
          outputs |-> Append(outputs, Unwrap(Unwrap(item))),
          pipe |-> IF wiring = "feedback" THEN Append(pipe, Unwrap(Unwrap(item)))
                   ELSE pipe,
          ended |-> FALSE]

\* the caller of the closure takes over; when last() has ended, the rest of
\* the body of the while let
Routed(r) ==
    /\ active' = r.active
    /\ reply' = r.reply
    /\ outputs' = r.outputs
    /\ emulator_e_a_loopback_pipe' = r.pipe
    /\ progress' = IF ~r.ended THEN "running"
                   ELSE IF IsSome(last_unwrap_unwrap(outputs)) THEN "done"
                   ELSE "panicked"
    /\ thrust_output' = IF r.ended THEN last_unwrap_unwrap(outputs) ELSE thrust_output
    /\ highest_thrust' = IF r.ended
                         THEN map_or_max(highest_thrust, last_unwrap_unwrap(outputs))
                         ELSE highest_thrust

\* step() of emulator k has returned stepped; its input yielded item
StepReturned(k, stepped, item, rest, pipe) ==
    /\ emulators' = store(emulators, k, stepped, rest)
    /\ trace' = Append(trace, [emulator |-> k,
                               memory |-> emulators[k].memory,
                               instruction_pointer |-> emulators[k].instruction_pointer,
                               input_iter |-> emulators[k].input_iter,
                               pipe |-> emulator_e_a_loopback_pipe,
                               called_next |-> stepped.called_next,
                               item |-> IF stepped.called_next THEN item ELSE None,
                               ret |-> stepped.ret])
    /\ Routed(Returns(k, into_output_iter(stepped.ret), pipe))
    /\ UNCHANGED <<wiring, intcode_memory, phases, rounds, previous>>

\* a call of step() of emulator k that calls no other emulator
AmplifierStep(k) ==
    /\ progress = "running"
    /\ active = k
    /\ reply = None
    /\ Len(trace) < MaxTrace
    /\ ~(Wants(k) /\ FromUpstream(k))
    /\ StepReturned(k,
                    step(emulators[k].memory, emulators[k].instruction_pointer,
                         Yields(k)),
                    Yields(k),
                    IF Wants(k) THEN advance(emulators[k].input_iter)
                    ELSE emulators[k].input_iter,
                    IF Wants(k) /\ FromPipe(k) /\ wiring = "feedback"
                    THEN pop_front(emulator_e_a_loopback_pipe)
                    ELSE emulator_e_a_loopback_pipe)
    /\ UNCHANGED <<emuVars, permVars>>

\* the Input handler of emulator k calls input_iter.next(), which calls the
\* output closure of emulator k - 1
AmplifierCalls(k) ==
    /\ progress = "running"
    /\ active = k
    /\ reply = None
    /\ Len(trace) < MaxTrace
    /\ Wants(k) /\ FromUpstream(k)
    /\ active' = k - 1
    /\ UNCHANGED <<wiring, intcode_memory, phases, emulators,
                   emulator_e_a_loopback_pipe, reply, trace, outputs, progress,
                   thrust_output, highest_thrust, rounds, previous>>
    /\ UNCHANGED <<emuVars, permVars>>

\* input_iter.next() of emulator k returns what the closure of emulator
\* k - 1 returned, and the step() of emulator k goes on with it
AmplifierResumes(k) ==
    /\ progress = "running"
    /\ active = k
    /\ reply # None
    /\ StepReturned(k,
                    step(emulators[k].memory, emulators[k].instruction_pointer,
                         Unwrap(reply)),
                    Unwrap(reply),
                    emulators[k].input_iter,
                    emulator_e_a_loopback_pipe)
    /\ UNCHANGED <<emuVars, permVars>>

\* the phases of a round: a permutation of 0..=4 (run_part_1) or of 5..=9
\* (run_part_2)
Phases(kind) ==
    LET low == IF kind = "chain" THEN 0 ELSE 5
    IN  {x \in [1..Amplifiers -> low..(low + Amplifiers - 1)] :
            \A i, j \in 1..Amplifiers : x[i] = x[j] => i = j}

\* the next round of the while let: the emulators and the queue are made anew
NextRound ==
    /\ progress = "done"
    /\ wiring # "none"
    /\ rounds < MaxRounds
    /\ \E x \in {phases, [k \in 1..Amplifiers |-> phases[Amplifiers + 1 - k]]} :
           /\ phases' = x
           /\ emulators' = Wired(intcode_memory, x)
    /\ emulator_e_a_loopback_pipe' = new_loopback_pipe
    /\ active' = Amplifiers
    /\ reply' = None
    /\ trace' = <<>>
    /\ outputs' = <<>>
    /\ progress' = "running"
    /\ thrust_output' = None
    /\ rounds' = rounds + 1
    /\ previous' = Append(previous, [phases |-> phases, outputs |-> outputs,
                                     emulators |-> emulators,
                                     thrust_output |-> thrust_output])
    /\ UNCHANGED <<wiring, intcode_memory, highest_thrust>>
    /\ UNCHANGED <<emuVars, permVars>>

\* adds its phase to each input and halts after two rounds of Input, Output
\* and a jump back
looping_amplifier ==
    <<3, 18, 3, 19, 1, 18, 19, 19, 4, 19, 1001, 20, -1, 20, 1005, 20, 2, 99, 0, 0, 2>>
\* runs into the word 0 when its phase is 0, and echoes one input otherwise
faulty_amplifier == <<3, 11, 1005, 11, 6, 0, 3, 12, 4, 12, 99, 0, 0>>
\* reads three values before it puts one out
greedy_amplifier == <<3, 9, 3, 9, 3, 9, 4, 9, 99, 0>>
\* runs into the word 0 when its phase is 7, and echoes one input otherwise
picky_amplifier ==
    <<3, 15, 1008, 15, 7, 16, 1005, 16, 14, 3, 17, 4, 17, 99, 0, 0, 0, 0>>

NetworkPrograms ==
    {amplifier, looping_amplifier, faulty_amplifier, greedy_amplifier, echo_loop,
     picky_amplifier}

\* the first round of run_part_1 or run_part_2
InitNetwork ==
    /\ \E kind \in {"chain", "feedback"}, mem \in NetworkPrograms :
       \E x \in Phases(kind) :
           /\ wiring = kind
           /\ intcode_memory = mem
           /\ phases = x
           /\ emulators = Wired(mem, x)
    /\ emulator_e_a_loopback_pipe = <<>>
    /\ active = Amplifiers
    /\ reply = None
    /\ trace = <<>>
    /\ outputs = <<>>
    /\ progress = "running"
    /\ thrust_output = None
    /\ highest_thrust = None
    /\ rounds = 0
    /\ previous = <<>>
    /\ NoEmulator
    /\ NoPermutator

NextNetwork ==
    \/ \E k \in 1..Amplifiers : AmplifierStep(k)
    \/ \E k \in 1..Amplifiers : AmplifierCalls(k)
    \/ \E k \in 1..Amplifiers : AmplifierResumes(k)
    \/ NextRound

SpecNetwork == InitNetwork /\ [][NextNetwork]_vars

-----------------------------------------------------------------------------
(* The vocabulary of the claims: an instruction as the specification reads
   it off the memory a call of step() found. *)

\* step() has been called; Last is the state the last call found and what
\* it returned, and memory and instruction_pointer are what it left
Called == calls # <<>>
Last == calls[Len(calls)]

PointerInside(c) == c.instruction_pointer < Len(c.memory)
Word(c) == c.memory[c.instruction_pointer + 1]
\* the instruction at the pointer has opcode code
IsOp(c, code) == PointerInside(c) /\ Word(c) > 0 /\ Word(c) % 100 = code
\* the declared parameter count of an opcode
Count(code) == CASE code \in {1, 2, 7, 8} -> 3
                 [] code \in {5, 6} -> 2
                 [] code \in {3, 4} -> 1
                 [] OTHER -> 0
\* the k-th parameter slot (k = 1, 2, 3) is a cell of the memory
SlotInside(c, k) == c.instruction_pointer + k <= Len(c.memory) - 1
Slot(c, k) == c.memory[c.instruction_pointer + k + 1]
\* the mode digit of the k-th parameter
Mode(c, k) == (Word(c) \div (100 * 10 ^ (k - 1))) % 10
\* the k-th parameter resolves as a Position or an Immediate operand
Resolves(c, k) ==
    \/ Mode(c, k) = 1
    \/ Mode(c, k) = 0 /\ Slot(c, k) >= 0 /\ Slot(c, k) < Len(c.memory)
Operand(c, k) == IF Mode(c, k) = 1 THEN Slot(c, k) ELSE c.memory[Slot(c, k) + 1]
\* the k-th parameter is a Position parameter with an address inside the memory
Destination(c, k) == Mode(c, k) = 0 /\ Slot(c, k) >= 0 /\ Slot(c, k) < Len(c.memory)

\* a well-formed Add or Multiply
WellFormedArithmetic(c) ==
    /\ IsOp(c, 1) \/ IsOp(c, 2)
    /\ SlotInside(c, 3)
    /\ Resolves(c, 1) /\ Resolves(c, 2)
    /\ Destination(c, 3)

Arithmetic(c) == IF IsOp(c, 1) THEN Operand(c, 1) + Operand(c, 2)
                 ELSE Operand(c, 1) * Operand(c, 2)

\* the last call returned Progressed, wrote v to the cell a and nothing else,
\* and moved the pointer by d
Wrote(c, a, v, d) ==
    /\ c.ret = Ok(Success)
    /\ memory = [c.memory EXCEPT ![a + 1] = v]
    /\ instruction_pointer = c.instruction_pointer + d

-----------------------------------------------------------------------------
(* C1: a well-formed Add or Multiply at the pointer (its three parameter
   slots inside Memory, both operands resolving, a Position destination with
   an address in range) makes step() return Progressed, change Memory only at
   the destination, to the sum or product of the operands as read before the
   write, and advance the pointer by 4, wherever the instruction sits, also
   when its last parameter slot is the last cell of Memory. *)
C1_ArithmeticFrame ==
    (Called /\ WellFormedArithmetic(Last)) =>
        Wrote(Last, Slot(Last, 3), Arithmetic(Last), 4)

-----------------------------------------------------------------------------
(* C4: step() fails with NotEnoughParametersForInstruction exactly when a
   declared parameter slot of the decoded instruction lies outside Memory,
   and the error then names the opcode, the parameter count and a positive
   shortfall; an instruction whose last slot is the last cell of Memory does
   not raise it. *)
Decodes(c) == \E code \in {1, 2, 3, 4, 5, 6, 7, 8, 99} : IsOp(c, code)
Opcode(c) == Word(c) % 100
IsShortage(c) == IsErr(c.ret) /\ c.ret.err.kind = "NotEnoughParametersForInstruction"

C4_ShortageExactly ==
    (Called /\ Decodes(Last)) =>
        /\ IsShortage(Last) <=>
               (Count(Opcode(Last)) > 0 /\ ~SlotInside(Last, Count(Opcode(Last))))
        /\ IsShortage(Last) =>
               /\ Last.ret.err.instruction = Opcode(Last)
               /\ Last.ret.err.expected = Count(Opcode(Last))
               /\ Last.ret.err.found > 0

-----------------------------------------------------------------------------
(* C2: halting is terminal and idempotent: once a call of step() has
   returned Halted, every later call returns Halted, never an error, and
   neither Memory nor the instruction pointer changes. *)
C2_HaltedIsTerminal ==
    \A i \in 1..Len(calls) :
        calls[i].ret = Ok(Done) =>
            /\ \A j \in i..Len(calls) :
                   /\ calls[j].ret = Ok(Done)
                   /\ calls[j].memory = calls[i].memory
                   /\ calls[j].instruction_pointer = calls[i].instruction_pointer
            /\ memory = calls[i].memory
            /\ instruction_pointer = calls[i].instruction_pointer

\* test_example, stepped twice more after it halted
C2_Witness ==
    /\ program = test_example
    /\ driver = "step"
    /\ Len(calls) = 5
    /\ calls[3].ret = Ok(Done)
    /\ calls[5].ret = Ok(Done)
    /\ instruction_pointer = 8

-----------------------------------------------------------------------------
(* C3: a writable parameter declared Immediate.  As claimed: whenever the
   instruction at the pointer is Add, Multiply, Input, LessThan or Equals and
   the mode digit of its writable parameter is 1, step() returns
   UnexpectedParameterModeForWritable(1, position of that slot). *)
WritableIndex(code) == IF code = 3 THEN 1 ELSE 3
WritableImmediate(c, code) == IsOp(c, code) /\ Mode(c, WritableIndex(code)) = 1
WritableSlot(c, code) == c.instruction_pointer + WritableIndex(code)

C3_AlwaysUnexpectedMode ==
    \A code \in {1, 2, 3, 7, 8} :
        (Called /\ WritableImmediate(Last, code)) =>
            Last.ret = Err(UnexpectedParameterModeForWritable(1, WritableSlot(Last, code)))

(* C3, amended: such a step always fails and leaves Memory, pointer and
   input as they were; it fails with UnexpectedParameterModeForWritable(1,
   slot) unless an earlier check of the same step fails first (the
   parameter-shortage check, or the mode digit or Position address of an
   earlier parameter), and it does fail with it whenever a cell follows the
   instruction's last parameter slot and every earlier parameter resolves. *)
C3_WritableImmediateFails ==
    \A code \in {1, 2, 3, 7, 8} :
        (Called /\ WritableImmediate(Last, code)) =>
            /\ IsErr(Last.ret)
            /\ memory = Last.memory
            /\ instruction_pointer = Last.instruction_pointer
            /\ input_iter = Last.input_iter
            /\ \/ Last.ret.err = UnexpectedParameterModeForWritable(
                                     1, WritableSlot(Last, code))
               \/ Last.ret.err.kind = "NotEnoughParametersForInstruction"
               \/ /\ Last.ret.err.kind = "InvalidParameterMode"
                  /\ \E k \in 1..(WritableIndex(code) - 1) : Mode(Last, k) \notin {0, 1}
               \/ /\ Last.ret.err.kind = "InvalidMemoryLocation"
                  /\ Last.ret.err.position > Last.instruction_pointer
                  /\ Last.ret.err.position < WritableSlot(Last, code)
            /\ ( /\ SlotInside(Last, WritableIndex(code) + 1)
                 /\ \A k \in 1..(WritableIndex(code) - 1) : Resolves(Last, k) )
               => Last.ret.err = UnexpectedParameterModeForWritable(
                                     1, WritableSlot(Last, code))

\* an Add behind the prefix whose third parameter is Immediate is refused
C3_Witness ==
    /\ Called
    /\ WritableImmediate(Last, 1)
    /\ Last.instruction_pointer = 3
    /\ Last.ret = Err(UnexpectedParameterModeForWritable(1, 6))

-----------------------------------------------------------------------------
(* C5: a Permutator over n distinct values yields exactly n! results before
   the first None; the results are pairwise distinct and each is a
   permutation of the values it was built over. *)
RECURSIVE Factorial(_)
Factorial(n) == IF n = 0 THEN 1 ELSE n * Factorial(n - 1)

Elements(seq) == {seq[i] : i \in 1..Len(seq)}
IsPermutationOf(seq, of) == Len(seq) = Len(of) /\ Elements(seq) = Elements(of)

C5_AllPermutationsOnce ==
    /\ exhausted >= 1 => Len(yielded) = Factorial(Len(values))
    /\ Len(yielded) <= Factorial(Len(values))
    /\ \A i \in 1..Len(yielded) : IsPermutationOf(yielded[i], values)
    /\ \A i, j \in 1..Len(yielded) : yielded[i] = yielded[j] => i = j

\* four values: next() has returned its 24 orderings and then None
C5_Witness ==
    /\ Len(values) = 4
    /\ Len(yielded) = 24
    /\ exhausted >= 1

-----------------------------------------------------------------------------
(* C6: each pull on the output iterator steps the emulator until the first
   step that produces an output (the pull returns the value), halts (the pull
   returns end-of-sequence) or fails (the pull returns the error); the values
   the pulls return are the values the Output instructions emitted, in
   execution order; and after a pull has returned end-of-sequence every later
   pull returns end-of-sequence. *)

\* the calls of step() that end a pull, and what such a pull returns
EndsPull(c) == c.ret # Ok(Success)
Returned(c) == IF IsErr(c.ret) THEN Some(c.ret)
               ELSE IF c.ret.val = Done THEN None
               ELSE Some(Ok(c.ret.val.value))
\* the values the executed Output instructions emitted
Outputs == SelectSeq(calls, LAMBDA c : IsOp(c, 4) /\ IsOk(c.ret))
IsValue(item) == IsSome(item) /\ IsOk(Unwrap(item))
Values == SelectSeq(pulled, IsValue)

C6_PullsFollowOutputs ==
    driver = "iter" =>
        /\ Len(pulled) = Len(SelectSeq(calls, EndsPull))
        /\ \A i \in 1..Len(pulled) :
               pulled[i] = Returned(SelectSeq(calls, EndsPull)[i])
        /\ Len(Values) = Len(Outputs)
        /\ \A i \in 1..Len(Values) : Unwrap(Values[i]).val = Operand(Outputs[i], 1)
        /\ \A i \in 1..Len(pulled) :
               pulled[i] = None => \A j \in i..Len(pulled) : pulled[j] = None

\* two_outputs: the second pull takes two steps, the third and fourth end
C6_Witness ==
    /\ program = two_outputs
    /\ driver = "iter"
    /\ pulled = <<Some(Ok(11)), Some(Ok(22)), None, None>>
    /\ Len(calls) = 5

-----------------------------------------------------------------------------
(* C7: run_to_completion calls step() until the first Halted and returns
   Memory[0] of the halted state, or returns the first error of a step
   without stepping further; on test_example it returns 3500 after two
   Progressed steps (Memory[3] = 70, then Memory[0] = 3500). *)
Progressing(c) == IsOk(c.ret) /\ c.ret.val # Done

C7_RunToCompletion ==
    driver = "run" =>
        /\ \A i \in 1..(Len(calls) - 1) : Progressing(calls[i])
        /\ run_result = None => \A i \in 1..Len(calls) : Progressing(calls[i])
        /\ run_result # None =>
               /\ Called
               /\ ~Progressing(Last)
               /\ memory = Last.memory
               /\ Unwrap(run_result) = IF IsErr(Last.ret) THEN Last.ret
                                       ELSE Ok(memory[1])
        /\ program = test_example =>
               /\ Len(calls) <= 3
               /\ Len(calls) >= 2 => calls[1].ret = Ok(Success) /\ calls[2].memory[4] = 70
               /\ Len(calls) >= 3 => calls[2].ret = Ok(Success) /\ calls[3].memory[1] = 3500
               /\ run_result # None => Len(calls) = 3 /\ run_result = Some(Ok(3500))

C7_Witness ==
    /\ program = test_example
    /\ driver = "run"
    /\ run_result = Some(Ok(3500))
    /\ memory = <<3500, 9, 10, 70, 2, 3, 11, 0, 99, 30, 40, 50>>

-----------------------------------------------------------------------------
(* C8: an Input instruction that gets to run (the step passes the
   parameter-shortage check and the destination resolves) writes the next
   value of the input source to its destination, consumes exactly that one
   value and advances the pointer by 2, so the k-th successful Input receives
   the k-th value of the source; when the source has no value the step fails
   with InputNonExistent, changing nothing.  No other step consumes input. *)
Runs(c) == IsOp(c, 3) /\ SlotInside(c, 1) /\ Destination(c, 1) /\ ~IsShortage(c)
SuccessfulInput(c) == IsOp(c, 3) /\ IsOk(c.ret)
SuccessfulInputs == Cardinality({i \in 1..Len(calls) : SuccessfulInput(calls[i])})

C8_InputConsumesInOrder ==
    Called =>
        /\ (Runs(Last) /\ Last.input_iter # <<>>) =>
               /\ Wrote(Last, Slot(Last, 1), Head(Last.input_iter).val, 2)
               /\ input_iter = Tail(Last.input_iter)
               /\ Head(Last.input_iter) = source[SuccessfulInputs]
        /\ (Runs(Last) /\ Last.input_iter = <<>>) =>
               /\ Last.ret = Err(InputNonExistent)
               /\ memory = Last.memory
               /\ instruction_pointer = Last.instruction_pointer
               /\ input_iter = <<>>
        /\ SuccessfulInput(Last) => Runs(Last) /\ Last.input_iter # <<>>
        /\ ~SuccessfulInput(Last) => input_iter = Last.input_iter

\* echo_loop on 5, 6, 5: the fourth Input finds the source empty
C8_Witness ==
    /\ program = echo_loop
    /\ source = <<Ok(5), Ok(6), Ok(5)>>
    /\ Len(calls) = 10
    /\ calls[4].memory[8] = 5
    /\ calls[5].memory[8] = 6
    /\ SuccessfulInputs = 3
    /\ Last.ret = Err(InputNonExistent)

-----------------------------------------------------------------------------
(* C9: a successful step reports Halted exactly when the executed opcode is
   End, ProgressedWithOutput(v) exactly when it is Output, with v the value
   its parameter resolves to, and Progressed for every other opcode; an
   Output step leaves Memory unchanged and advances the pointer by 2. *)
C9_ReportedResult ==
    (Called /\ IsOk(Last.ret)) =>
        /\ Last.ret.val = Done <=> Opcode(Last) = 99
        /\ Last.ret.val.kind = "SuccessWithValue" <=> Opcode(Last) = 4
        /\ Opcode(Last) = 4 =>
               /\ Last.ret.val = SuccessWithValue(Operand(Last, 1))
               /\ memory = Last.memory
               /\ instruction_pointer = Last.instruction_pointer + 2
        /\ Opcode(Last) \notin {4, 99} => Last.ret.val = Success

\* an Output in position mode behind the prefix
C9_Witness ==
    /\ Called
    /\ Last.instruction_pointer = 3
    /\ Word(Last) = 4
    /\ Last.ret = Ok(SuccessWithValue(1105))
    /\ instruction_pointer = 5

-----------------------------------------------------------------------------
(* C10: after a successful step the next pointer is: none for End (the
   pointer stays); for JumpIfTrue the value b when a is non-zero and for
   JumpIfFalse the value b when a is zero, otherwise pointer + 3; for every
   other opcode pointer + 1 + parameter count.  Jumps never change Memory.
   The jump programs of the tests output 0 for input 0 and 1 for any other
   input. *)
Taken(c) == \/ Opcode(c) = 5 /\ Operand(c, 1) # 0
            \/ Opcode(c) = 6 /\ Operand(c, 1) = 0

C10_NextPointer ==
    /\ (Called /\ IsOk(Last.ret)) =>
           /\ Opcode(Last) = 99 => instruction_pointer = Last.instruction_pointer
           /\ Opcode(Last) \in {5, 6} =>
                  /\ memory = Last.memory
                  /\ instruction_pointer = IF Taken(Last) THEN Operand(Last, 2)
                                           ELSE Last.instruction_pointer + 3
           /\ Opcode(Last) \notin {5, 6, 99} =>
                  instruction_pointer =
                      Last.instruction_pointer + 1 + Count(Opcode(Last))
    /\ ( /\ program \in {test_jumps_with_position_mode, test_jumps_with_immediate_mode}
         /\ driver = "iter"
         /\ Len(source) = 1
         /\ pulled # <<>> )
       => pulled[1] = Some(Ok(IF source[1].val = 0 THEN 0 ELSE 1))

\* test_jumps_with_position_mode on input 0: the JumpIfFalse at 2 is taken
C10_Witness ==
    /\ program = test_jumps_with_position_mode
    /\ driver = "iter"
    /\ Called
    /\ Last.instruction_pointer = 2
    /\ Taken(Last)
    /\ instruction_pointer = 9

-----------------------------------------------------------------------------
(* C11: an Equals or LessThan instruction that gets to run (the step is past
   the parameter-shortage check, both operands resolve in position or
   immediate mode, the destination is a Position parameter in range) writes 1
   to its destination when a = b, respectively a < b, and 0 otherwise, and
   changes nothing else but the pointer, which moves by 4.  So the equals
   programs of the tests output 1 exactly for input 8 and the less-than
   programs 1 exactly for an input below 8. *)
WellFormedComparison(c) ==
    /\ IsOp(c, 7) \/ IsOp(c, 8)
    /\ SlotInside(c, 3)
    /\ ~IsShortage(c)
    /\ Resolves(c, 1) /\ Resolves(c, 2)
    /\ Destination(c, 3)

Comparison(c) == IF IsOp(c, 8)
                 THEN (IF Operand(c, 1) = Operand(c, 2) THEN 1 ELSE 0)
                 ELSE (IF Operand(c, 1) < Operand(c, 2) THEN 1 ELSE 0)

Fed == driver = "iter" /\ Len(source) = 1 /\ pulled # <<>>

C11_Comparisons ==
    /\ (Called /\ WellFormedComparison(Last)) =>
           Wrote(Last, Slot(Last, 3), Comparison(Last), 4)
    /\ (Fed /\ program \in {test_equals_with_position_mode,
                            test_equals_with_immediate_mode}) =>
           pulled[1] = Some(Ok(IF source[1].val = 8 THEN 1 ELSE 0))
    /\ (Fed /\ program \in {test_less_than_with_position_mode,
                            test_less_than_with_immediate_mode}) =>
           pulled[1] = Some(Ok(IF source[1].val < 8 THEN 1 ELSE 0))

\* the less-than program on input 7 has put out 1 and halted
C11_Witness ==
    /\ program = test_less_than_with_position_mode
    /\ source = <<Ok(7)>>
    /\ pulled = <<Some(Ok(1)), None>>
    /\ memory[10] = 1

-----------------------------------------------------------------------------
(* C12: on a single input x, test_long_example_with_jumps puts out 999 when
   x < 8, 1000 when x = 8 and 1001 when x > 8 as its first output, then
   halts, and no step of it fails. *)
Classified(x) == IF x < 8 THEN 999 ELSE IF x = 8 THEN 1000 ELSE 1001

C12_LongExample ==
    (program = test_long_example_with_jumps /\ Len(source) = 1) =>
        /\ \A i \in 1..Len(calls) : IsOk(calls[i].ret)
        /\ Len(calls) >= 10 => \E i \in 1..10 : calls[i].ret = Ok(Done)
        /\ driver = "iter" =>
               /\ Len(pulled) >= 1 => pulled[1] = Some(Ok(Classified(source[1].val)))
               /\ \A i \in 2..Len(pulled) : pulled[i] = None
        /\ driver = "run" => (run_result # None => IsOk(Unwrap(run_result)))

\* input 9: 1001, then the end of the sequence
C12_Witness ==
    /\ program = test_long_example_with_jumps
    /\ source = <<Ok(9)>>
    /\ pulled = <<Some(Ok(1001)), None>>

-----------------------------------------------------------------------------
(* C13: a read-only parameter in Immediate mode evaluates to the value of its
   slot, negative values included, and one in Position mode to the Memory
   cell the slot addresses: an Output puts out that value, an Add or Multiply
   writes the sum or product of the two.  test_negatives after one step is
   [1101,100,-1,4,99] and test_parameter_modes is [1002,4,3,4,99], and the
   second step of both reports Halted. *)
Evaluated(c, k) ==
    CASE Mode(c, k) = 1 -> c.memory[c.instruction_pointer + k + 1]
      [] Mode(c, k) = 0 -> c.memory[c.memory[c.instruction_pointer + k + 1] + 1]

\* the Memory after the i-th call of step()
MemoryAfter(i) == IF i < Len(calls) THEN calls[i + 1].memory ELSE memory

C13_ParameterModes ==
    /\ (Called /\ IsOk(Last.ret) /\ Opcode(Last) = 4) =>
           Last.ret.val.value = Evaluated(Last, 1)
    /\ (Called /\ IsOk(Last.ret) /\ Opcode(Last) = 1) =>
           memory[Slot(Last, 3) + 1] = Evaluated(Last, 1) + Evaluated(Last, 2)
    /\ (Called /\ IsOk(Last.ret) /\ Opcode(Last) = 2) =>
           memory[Slot(Last, 3) + 1] = Evaluated(Last, 1) * Evaluated(Last, 2)
    /\ (program \in {test_negatives, test_parameter_modes} /\ Called) =>
           /\ calls[1].ret = Ok(Success)
           /\ MemoryAfter(1) = [program EXCEPT ![5] = 99]
           /\ Len(calls) >= 2 => calls[2].ret = Ok(Done)

\* test_negatives: 100 + -1 written over the 0, and halted on it
C13_Witness ==
    /\ program = test_negatives
    /\ Len(calls) = 2
    /\ Last.ret = Ok(Done)
    /\ memory = <<1101, 100, -1, 4, 99>>

-----------------------------------------------------------------------------
(* The vocabulary of the claims about the networks. *)

\* emulator k has reported Halted: a call of its step() has returned Done
HasHalted(k) == \E i \in 1..Len(trace) : trace[i].emulator = k /\ trace[i].ret = Ok(Done)
\* a call of step() of some emulator has failed
Failed == \E i \in 1..Len(trace) : IsErr(trace[i].ret)
\* the calls of step() of emulator k, in order
StepsOf(k) == SelectSeq(trace, LAMBDA t : t.emulator = k)

-----------------------------------------------------------------------------
(* C14: the chain of run_part_1 on the amplifier program with the phases
   4, 3, 2, 1, 0 and the initial input 0 ends, after 26 calls of step(), with
   43210 as the last (and only) item of emulator_e's output iterator, which
   is the thrust; no call of step() of any emulator fails. *)
C14_ChainThrust ==
    (wiring = "chain" /\ intcode_memory = amplifier /\ phases = <<4, 3, 2, 1, 0>>) =>
        /\ ~Failed
        /\ progress # "panicked"
        /\ Len(trace) <= 26
        /\ Len(trace) = 26 => progress = "done"
        /\ progress = "done" =>
               /\ outputs = <<Ok(43210)>>
               /\ thrust_output = Some(43210)

C14_Witness ==
    /\ wiring = "chain"
    /\ intcode_memory = amplifier
    /\ phases = <<4, 3, 2, 1, 0>>
    /\ rounds = 0
    /\ progress = "done"
    /\ thrust_output = Some(43210)
    /\ \A k \in 1..Amplifiers : Len(StepsOf(k)) >= 5

-----------------------------------------------------------------------------
(* C15: in the feedback network of run_part_2 on a looping amplifier program
   (Input, Output, a jump back, finally End), pulling emulator_e's output to
   exhaustion terminates, and when it has terminated every emulator has
   reached Halted.  That is what the claim says; the emulators before
   emulator_e have not. *)
C15_EveryInstanceHalted ==
    (wiring = "feedback" /\ intcode_memory = looping_amplifier /\ progress = "done") =>
        \A k \in 1..Amplifiers : HasHalted(k)

(* C15, amended: pulling emulator_e's output to exhaustion terminates, with
   no call of step() failing, and when it has terminated emulator_e has
   reached Halted and no other emulator has: each of them was stepped until
   the last output the emulator after it read, and stands behind that Output
   instruction.  In any network, whatever the program, no emulator before
   emulator_e has reached Halted when the pulling has terminated. *)
LastOf(k) == StepsOf(k)[Len(StepsOf(k))]

C15_LastInstanceHalted ==
    /\ (wiring = "feedback" /\ intcode_memory = looping_amplifier) =>
           /\ ~Failed
           /\ progress # "panicked"
           /\ Len(trace) <= 48
           /\ Len(trace) = 48 => progress = "done"
           /\ progress = "done" =>
                  /\ Len(outputs) = 2
                  /\ HasHalted(Amplifiers)
                  /\ \A k \in 1..(Amplifiers - 1) :
                         /\ IsOp(LastOf(k), 4)
                         /\ IsOk(LastOf(k).ret)
                         /\ emulators[k].instruction_pointer < Len(emulators[k].memory)
                         /\ emulators[k].memory[emulators[k].instruction_pointer + 1] # 99
    /\ (wiring # "none" /\ progress = "done") =>
           /\ HasHalted(Amplifiers)
           /\ \A k \in 1..(Amplifiers - 1) : ~HasHalted(k)

C15_Witness ==
    /\ wiring = "feedback"
    /\ intcode_memory = looping_amplifier
    /\ phases = <<9, 8, 7, 6, 5>>
    /\ progress = "done"
    /\ outputs = <<Ok(35), Ok(70)>>
    /\ emulators[5].instruction_pointer = 17
    /\ emulators[1].instruction_pointer = 10

-----------------------------------------------------------------------------
(* C16: network runs are deterministic: a round of the while let on the same
   program, with the same phases and the same initial input as a round
   before it, takes the same items from emulator_e's output iterator (so it
   has the same thrust) and leaves every emulator with the same Memory and
   pointer.  While it runs, what it has taken is a prefix of what the round
   before took. *)
SamePhases(r) == r \in 1..Len(previous) /\ previous[r].phases = phases

-----------------------------------------------------------------------------
(* C17: in a network, when a call of step() of an emulator before emulator_e
   fails with the error e, the Input of the emulator after it, which asked
   for the item, fails with that same e - not with InputNonExistent, and not
   by halting - and leaves the Memory and the pointer of its emulator as it
   found them; e reaches emulator_e's output iterator, so it is among the
   items last() takes. *)
Range(items) == {items[i] : i \in 1..Len(items)}
\* the calls of step() of the emulator of the i-th call after that call
LaterOf(i) == {j \in (i + 1)..Len(trace) : trace[j].emulator = trace[i].emulator}
\* Memory and pointer of its emulator after the i-th call
StateAfter(i) ==
    IF LaterOf(i) = {}
    THEN <<emulators[trace[i].emulator].memory,
           emulators[trace[i].emulator].instruction_pointer>>
    ELSE LET j == CHOOSE j \in LaterOf(i) : \A l \in LaterOf(i) : j <= l
         IN  <<trace[j].memory, trace[j].instruction_pointer>>

C17_UpstreamErrorPropagates ==
    \A i \in 1..Len(trace) :
        /\ (trace[i].emulator < Amplifiers /\ IsErr(trace[i].ret) /\ i < Len(trace)) =>
               /\ trace[i + 1].emulator = trace[i].emulator + 1
               /\ IsOp(trace[i + 1], 3)
               /\ trace[i + 1].item = Some(trace[i].ret)
               /\ trace[i + 1].ret = trace[i].ret
        /\ (trace[i].emulator > 1 /\ IsSome(trace[i].item)
                /\ IsErr(Unwrap(trace[i].item))) =>
               /\ trace[i].ret = Unwrap(trace[i].item)
               /\ StateAfter(i) = <<trace[i].memory, trace[i].instruction_pointer>>
        /\ (IsErr(trace[i].ret)
                /\ Len(trace) >= i + Amplifiers - trace[i].emulator) =>
               trace[i].ret \in Range(outputs)

\* the chain on faulty_amplifier with phase 0 for emulator_a: its third step,
\* the eleventh of the network, fails, and the error has come through the
\* four Inputs after it
C17_Witness ==
    /\ wiring = "chain"
    /\ intcode_memory = faulty_amplifier
    /\ phases[1] = 0
    /\ Len(trace) >= 11
    /\ trace[11].emulator = 1
    /\ trace[11].ret = Err(InvalidInstruction(0, 5))
    /\ outputs = <<Err(InvalidInstruction(0, 5))>>
    /\ \A k \in 2..Amplifiers :
           /\ emulators[k].instruction_pointer = 6
           /\ LastOf(k).ret = Err(InvalidInstruction(0, 5))

-----------------------------------------------------------------------------
(* C18: in the feedback network the values emulator_a reads after its two
   seed values (phase, initial input) are the items emulator_e's output
   iterator has produced, in the order produced: at every moment the items
   read from the queue followed by the items still in it are the items
   produced, so none is skipped, duplicated or reordered and each was pushed
   before it was popped; an Input of emulator_a that runs when the seeds are
   used up takes the item at the front of the queue, and fails with
   InputNonExistent when the queue is empty. *)
\* the items the Inputs of emulator k have read
ReadBy(k) == SelectSeq(StepsOf(k), LAMBDA t : Runs(t) /\ IsSome(t.item))
Popped == [i \in 1..(Len(ReadBy(1)) - 2) |-> Unwrap(ReadBy(1)[i + 2].item)]

C18_FeedbackIsFifo ==
    wiring = "feedback" =>
        /\ Len(ReadBy(1)) >= 1 => ReadBy(1)[1].item = Some(Ok(phases[1]))
        /\ Len(ReadBy(1)) >= 2 => ReadBy(1)[2].item = Some(Ok(initial_input))
        /\ Popped \o emulator_e_a_loopback_pipe = outputs
        /\ \A i \in 1..Len(trace) :
               (trace[i].emulator = 1 /\ Runs(trace[i]) /\ trace[i].input_iter = <<>>) =>
                   IF trace[i].pipe = <<>>
                   THEN trace[i].item = None /\ trace[i].ret = Err(InputNonExistent)
                   ELSE trace[i].item = Some(Head(trace[i].pipe))

\* echo_loop: emulator_a has read an item off a queue that held several
C18_Witness ==
    /\ wiring = "feedback"
    /\ intcode_memory = echo_loop
    /\ Len(Popped) >= 1
    /\ Len(emulator_e_a_loopback_pipe) >= 2
    /\ Popped[1] = outputs[1]
    /\ Popped[1] = Ok(phases[5])

-----------------------------------------------------------------------------
(* C19: Memory is owned by one emulator: a call of step() of an emulator of
   a network changes the Memory and the pointer of that emulator only, an
   emulator that has not been stepped has the Memory it was constructed with
   and the pointer 0, and initial_memory, which the emulators are constructed
   from, never changes. *)
\* this step of the network is a call of step() of emulator k returning
Stepping(k) ==
    /\ Len(trace') = Len(trace) + 1
    /\ trace'[Len(trace')].emulator = k
Untouched(k) ==
    /\ emulators'[k].memory = emulators[k].memory
    /\ emulators'[k].instruction_pointer = emulators[k].instruction_pointer

SteppedOnly ==
    /\ intcode_memory' = intcode_memory
    /\ rounds' = rounds =>
           \A k \in 1..Amplifiers : Untouched(k) \/ Stepping(k)

C19_ExclusiveMemory ==
    /\ [][SteppedOnly]_vars
    /\ [](\A k \in 1..Amplifiers :
              StepsOf(k) = <<>> =>
                  /\ emulators[k].memory = intcode_memory
                  /\ emulators[k].instruction_pointer = 0)
    /\ [](\A k \in 1..Amplifiers : Len(emulators[k].memory) = Len(intcode_memory))

\* the feedback round on looping_amplifier has ended: five different
\* memories, none the program's
C19_Witness ==
    /\ wiring = "feedback"
    /\ intcode_memory = looping_amplifier
    /\ progress = "done"
    /\ \A j, k \in 1..Amplifiers :
           /\ emulators[k].memory # intcode_memory
           /\ j # k => emulators[j].memory # emulators[k].memory

-----------------------------------------------------------------------------
(* C20: decoding.  The opcode is the instruction word mod 100, the remainder
   being that of the division that rounds toward zero, so that no negative
   word has an opcode; step() fails with InvalidInstruction(word, pointer)
   exactly when the opcode is none of 1..8, 99.  Each parameter that is
   resolved consumes one mode digit, left to right from word / 100 by mod 10
   and div 10; the first of them that is neither 0 nor 1 makes step() fail
   with InvalidParameterMode(digit, pointer), and the digits beyond the
   declared parameter count are never examined: they cause no error. *)
Remainder(w, d) == IF w >= 0 THEN w % d ELSE 0 - ((0 - w) % d)
Matched(c) == Remainder(Word(c), 100) \in {1, 2, 3, 4, 5, 6, 7, 8, 99}
Declared(c) == Count(Remainder(Word(c), 100))
Digit(c, k) == (Word(c) \div (100 * 10 ^ (k - 1))) % 10
\* the declared parameters with a digit that is no mode
BadDigits(c) == {k \in 1..Declared(c) : Digit(c, k) \notin {0, 1}}
FirstBad(c) == CHOOSE k \in BadDigits(c) : \A j \in BadDigits(c) : k <= j
IsBadMode(c) == IsErr(c.ret) /\ c.ret.err.kind = "InvalidParameterMode"

-----------------------------------------------------------------------------
(* C21: a Position parameter that step() gets to resolve (the step is past
   the parameter-shortage check and every earlier parameter resolves) and
   whose slot holds a negative value or one not below the memory length makes
   the step fail with InvalidMemoryLocation(the slot value, pointer +
   parameter index + 1); no other parameter produces that error, and a step
   that succeeds has used only addresses inside the memory, whose cells stay
   the same in number. *)
\* the k-th parameter is a Position parameter whose address is outside
OutOfRange(c, k) ==
    /\ Digit(c, k) = 0
    /\ Slot(c, k) < 0 \/ Slot(c, k) >= Len(c.memory)
\* step() gets to the k-th parameter
Reached(c, k) ==
    /\ Matched(c) /\ k <= Declared(c)
    /\ SlotInside(c, Declared(c))
    /\ ~IsShortage(c)
    /\ \A j \in 1..(k - 1) : Resolves(c, j)
IsBadLocation(c) == IsErr(c.ret) /\ c.ret.err.kind = "InvalidMemoryLocation"

C21_PositionOutOfRange ==
    (Called /\ PointerInside(Last)) =>
        /\ \A k \in 1..3 :
               (Reached(Last, k) /\ OutOfRange(Last, k)) =>
                   /\ Last.ret = Err(InvalidMemoryLocation(
                                         Slot(Last, k), Last.instruction_pointer + k))
                   /\ memory = Last.memory
        /\ (IsBadLocation(Last) /\ Last.ret.err.position # 0) =>
               \E k \in 1..3 :
                   /\ Reached(Last, k) /\ OutOfRange(Last, k)
                   /\ Last.ret.err.position = Last.instruction_pointer + k
        /\ (IsOk(Last.ret) /\ Matched(Last)) =>
               \A k \in 1..Declared(Last) :
                   SlotInside(Last, k) /\ ~OutOfRange(Last, k)
        /\ Len(memory) = Len(Last.memory)

\* an Add behind the jump whose destination slot holds -1
C21_Witness ==
    /\ Called
    /\ Last.memory = <<1105, 1, 3, 1, 0, 0, -1, 4>>
    /\ Last.instruction_pointer = 3
    /\ Last.ret = Err(InvalidMemoryLocation(-1, 6))
    /\ memory = Last.memory

-----------------------------------------------------------------------------
(* C22: whenever step() is called with the instruction pointer outside the
   memory (on an empty memory, or after a taken jump to an address not below
   the memory length) it fails with InstructionPointerOutOfBounds(pointer)
   and changes nothing, and no other call fails with that error;
   run_to_completion on such a program returns that error, on an empty memory
   from its first call of step(). *)
IsOutOfBounds(c) ==
    IsErr(c.ret) /\ c.ret.err.kind = "InstructionPointerOutOfBounds"

C22_PointerOutOfBounds ==
    Called =>
        /\ ~PointerInside(Last) =>
               /\ Last.ret = Err(InstructionPointerOutOfBounds(Last.instruction_pointer))
               /\ memory = Last.memory
               /\ instruction_pointer = Last.instruction_pointer
               /\ input_iter = Last.input_iter
        /\ IsOutOfBounds(Last) => ~PointerInside(Last)
        /\ (driver = "run" /\ ~PointerInside(Last)) =>
               run_result = Some(Err(InstructionPointerOutOfBounds(
                                         Last.instruction_pointer)))
        /\ (driver = "run" /\ program = empty_memory) =>
               /\ Len(calls) = 1
               /\ run_result = Some(Err(InstructionPointerOutOfBounds(0)))

\* run_to_completion on the program that jumps past its end
C22_Witness ==
    /\ program = jump_past_end
    /\ driver = "run"
    /\ Len(calls) = 2
    /\ calls[1].ret = Ok(Success)
    /\ Last.instruction_pointer = 4
    /\ run_result = Some(Err(InstructionPointerOutOfBounds(4)))

-----------------------------------------------------------------------------
(* C23: a step returns the first error in the order pointer bounds, opcode
   decoding, parameter-shortage check, parameters from left to right (for
   each its mode digit, then its address range or its being a writable
   Immediate), opcode handler.  So an Add whose first parameter is a Position
   out of range and whose third is Immediate fails with InvalidMemoryLocation
   for the first, and an instruction that is too short fails with the
   shortage error whatever its mode digits. *)
\* the instruction lacks a slot of a declared parameter
TooShort(c) == Declared(c) > 0 /\ ~SlotInside(c, Declared(c))
\* the k-th parameter is the writable one of its instruction
IsWritable(c, k) == Opcode(c) \in {1, 2, 3, 7, 8} /\ k = Declared(c)
\* the error the k-th parameter raises when it is resolved, if any
ParameterError(c, k) ==
    IF Digit(c, k) \notin {0, 1}
    THEN <<InvalidParameterMode(Digit(c, k), c.instruction_pointer)>>
    ELSE IF Digit(c, k) = 0
    THEN IF Slot(c, k) < 0 \/ Slot(c, k) >= Len(c.memory)
         THEN <<InvalidMemoryLocation(Slot(c, k), c.instruction_pointer + k)>>
         ELSE <<>>
    ELSE IF IsWritable(c, k)
    THEN <<UnexpectedParameterModeForWritable(1, c.instruction_pointer + k)>>
    ELSE <<>>
Failing(c) == {k \in 1..Declared(c) : ParameterError(c, k) # <<>>}
FirstFailing(c) == CHOOSE k \in Failing(c) : \A j \in Failing(c) : k <= j
\* the errors that come after the parameters: of the handler of Input and of
\* the pointer update of a jump
IsLate(c) ==
    /\ IsErr(c.ret)
    /\ \/ c.ret.err = InputNonExistent /\ Opcode(c) = 3 /\ c.input_iter = <<>>
       \/ /\ Opcode(c) = 3 /\ c.input_iter # <<>>
          /\ c.ret = Head(c.input_iter)
       \/ /\ Opcode(c) \in {5, 6}
          /\ c.ret.err = InvalidMemoryLocation(Operand(c, 2), 0)

C23_FirstError ==
    Called =>
        /\ ~PointerInside(Last) => IsOutOfBounds(Last)
        /\ (PointerInside(Last) /\ ~Matched(Last)) =>
               Last.ret = Err(InvalidInstruction(Word(Last), Last.instruction_pointer))
        /\ (PointerInside(Last) /\ Matched(Last)) =>
               /\ TooShort(Last) => IsShortage(Last)
               /\ (~IsShortage(Last) /\ Failing(Last) # {}) =>
                      Last.ret = Err(ParameterError(Last, FirstFailing(Last))[1])
               /\ (~IsShortage(Last) /\ Failing(Last) = {} /\ IsErr(Last.ret)) =>
                      IsLate(Last)

\* the Add of the claim: the first parameter a Position out of range, the
\* third an Immediate
C23_Witness ==
    /\ Called
    /\ Last.memory = <<1105, 1, 3, 10001, -1, 0, 0, 4>>
    /\ Last.instruction_pointer = 3
    /\ Failing(Last) = {1, 3}
    /\ Last.ret = Err(InvalidMemoryLocation(-1, 4))

\* an Add with the mode digit 2 and two cells behind it
C23_WitnessTooShort ==
    /\ Called
    /\ Last.memory = <<201, 0, 0>>
    /\ Last.ret = Err(NotEnoughParametersForInstruction(1, 3, 1))

-----------------------------------------------------------------------------
(* C24: the memory of an emulator has in every reachable state the length it
   had at construction: before and after every call of step(), whether the
   call succeeded or failed. *)
C24_MemoryLength ==
    /\ Len(memory) = Len(program)
    /\ \A i \in 1..Len(calls) : Len(calls[i].memory) = Len(program)

\* two_outputs has written its last cell, halted, and was stepped again
C24_Witness ==
    /\ program = two_outputs
    /\ Len(calls) >= 4
    /\ calls[2].ret = Ok(Success)
    /\ calls[4].ret = Ok(Done)
    /\ memory = <<104, 11, 1101, 20, 2, 9, 4, 9, 99, 22>>

\* a write and then a failing step: echo_loop on the single value 7
C24_WitnessFailing ==
    /\ program = echo_loop
    /\ source = <<Ok(7)>>
    /\ Called
    /\ Last.ret = Err(InputNonExistent)
    /\ memory = <<3, 7, 4, 7, 1105, 1, 0, 7, 99>>

-----------------------------------------------------------------------------
(* C25: every step decodes the word that the memory holds at the pointer when
   the step is called, not the word of the original program: a step reports
   Halted exactly when that word is an End.  In
   test_overriding_future_instructions the first Add overwrites the End at
   cell 4 with 2, the second step executes that Multiply and makes cell 0 30,
   and the End at cell 8 halts; run_to_completion returns 30. *)
Overwritten(c) == PointerInside(c) /\ Word(c) # program[c.instruction_pointer + 1]

C25_CurrentMemoryDecoded ==
    /\ \A i \in 1..Len(calls) :
           PointerInside(calls[i]) =>
               (calls[i].ret = Ok(Done) <=> Remainder(Word(calls[i]), 100) = 99)
    /\ program = test_overriding_future_instructions =>
           /\ Len(calls) >= 1 =>
                  /\ calls[1].ret = Ok(Success)
                  /\ MemoryAfter(1) = <<1, 1, 1, 4, 2, 5, 6, 0, 99>>
           /\ Len(calls) >= 2 =>
                  /\ calls[2].instruction_pointer = 4
                  /\ Overwritten(calls[2])
                  /\ calls[2].ret = Ok(Success)
                  /\ MemoryAfter(2) = <<30, 1, 1, 4, 2, 5, 6, 0, 99>>
           /\ Len(calls) >= 3 =>
                  /\ calls[3].instruction_pointer = 8
                  /\ calls[3].ret = Ok(Done)
           /\ run_result # None => run_result = Some(Ok(30))

\* run_to_completion has returned 30 after three calls of step()
C25_Witness ==
    /\ program = test_overriding_future_instructions
    /\ driver = "run"
    /\ Len(calls) = 3
    /\ Overwritten(calls[2])
    /\ program[5] = 99 /\ calls[2].ret = Ok(Success)
    /\ run_result = Some(Ok(30))

-----------------------------------------------------------------------------
(* C26: a step whose instruction is a taken jump to its own address returns
   Progressed and leaves memory, pointer and input as they were, so the next
   step is the same step again.  On self_jump ([1105,1,0,99]) every call of
   step() returns Progressed, the emulator stays in its initial state, and
   neither run_to_completion nor a pull on the output returns. *)
JumpsToItself(c) ==
    /\ PointerInside(c) /\ Matched(c)
    /\ Opcode(c) \in {5, 6}
    /\ SlotInside(c, 2) /\ ~IsShortage(c)
    /\ Resolves(c, 1) /\ Resolves(c, 2)
    /\ Taken(c)
    /\ Operand(c, 2) = c.instruction_pointer

C26_SelfJumpRunsForever ==
    /\ (Called /\ JumpsToItself(Last)) =>
           /\ Last.ret = Ok(Success)
           /\ memory = Last.memory
           /\ instruction_pointer = Last.instruction_pointer
           /\ input_iter = Last.input_iter
    /\ program = self_jump =>
           /\ \A i \in 1..Len(calls) :
                  /\ JumpsToItself(calls[i])
                  /\ calls[i].ret = Ok(Success)
                  /\ calls[i].memory = self_jump
                  /\ calls[i].instruction_pointer = 0
           /\ memory = self_jump /\ instruction_pointer = 0
           /\ run_result = None
           /\ pulled = <<>>

\* ten rounds of the loop of run_to_completion on self_jump, none returning
C26_Witness ==
    /\ program = self_jump
    /\ driver = "run"
    /\ Len(calls) >= 10
    /\ JumpsToItself(Last)
    /\ instruction_pointer = 0
    /\ run_result = None

\* ten rounds of the loop of one pull on self_jump
C26_WitnessPull ==
    /\ program = self_jump
    /\ driver = "iter"
    /\ Len(calls) >= 10
    /\ pulled = <<>>

-----------------------------------------------------------------------------
(* C27: pull-driven scheduling.  The first emulator stepped is emulator_e,
   for last(); an emulator before it is stepped only inside an Input step of
   the emulator after it that runs when that emulator's phase has been taken,
   and only until its step yields an item (an output, the end at Halted, or
   an error), which that Input step then takes at once.  So at every moment
   the items an emulator has yielded are the items the Inputs of the next
   emulator have asked it for: none runs ahead of its consumer. *)
\* the call t of step() ended a pull on the emulator's output
Yielding(t) == t.ret # Ok(Success)
\* the call t of step() executed an Input when the once items were used up
Demanding(t) == t.called_next /\ t.input_iter = <<>>
\* the calls of step() of emulators behind that of the i-th call, after it
Behind(i) == {n \in (i + 1)..Len(trace) : trace[n].emulator > trace[i].emulator}
Enclosing(i) == CHOOSE n \in Behind(i) : \A m \in Behind(i) : n <= m
\* the pulls on emulator k that have been answered, and those asked for
Answered(k) == Len(SelectSeq(StepsOf(k), Yielding))
Asked(k) == Len(SelectSeq(StepsOf(k + 1), Demanding))
           + (IF active <= k \/ (active = k + 1 /\ reply # None) THEN 1 ELSE 0)

C27_PullDriven ==
    /\ trace # <<>> => trace[1].emulator = Amplifiers
    /\ \A i \in 1..Len(trace) :
           trace[i].emulator < Amplifiers =>
               IF Behind(i) = {}
               THEN /\ progress = "running"
                    /\ \/ active <= trace[i].emulator
                       \/ active = trace[i].emulator + 1 /\ reply # None
                    /\ (i = Len(trace) /\ Yielding(trace[i])) =>
                           /\ active = trace[i].emulator + 1
                           /\ reply = Some(Returned(trace[i]))
                    /\ emulators[trace[i].emulator + 1].input_iter = <<>>
                    /\ Opcode(emulators[trace[i].emulator + 1]) = 3
               ELSE /\ trace[Enclosing(i)].emulator = trace[i].emulator + 1
                    /\ Demanding(trace[Enclosing(i)])
                    /\ IsOp(trace[Enclosing(i)], 3)
    /\ \A i \in 1..(Len(trace) - 1) :
           /\ (Yielding(trace[i]) /\ trace[i].emulator < Amplifiers) =>
                  /\ trace[i + 1].emulator = trace[i].emulator + 1
                  /\ trace[i + 1].item = Returned(trace[i])
           /\ ~Yielding(trace[i]) => trace[i + 1].emulator <= trace[i].emulator
    /\ progress = "running" =>
           \A k \in 1..(Amplifiers - 1) :
               /\ Answered(k) <= Asked(k)
               /\ Asked(k) <= Answered(k) + 1

\* the chain on the amplifier program: emulator_a has answered its one pull,
\* emulator_b is about to take the item, and nothing else has been asked for
C27_Witness ==
    /\ wiring = "chain"
    /\ intcode_memory = amplifier
    /\ progress = "running"
    /\ active = 2 /\ reply # None
    /\ Answered(1) = 1 /\ Asked(1) = 1
    /\ trace[Len(trace)].emulator = 1
    /\ Len(StepsOf(2)) = 1
    /\ \A k \in 2..(Amplifiers - 1) : Answered(k) = 0 /\ Asked(k) = 1

-----------------------------------------------------------------------------
(* C28: the first value an emulator of a network reads is its own phase; the
   n-th value an emulator after emulator_a reads after that is the n-th
   output of the emulator before it, and it has read all of them but at most
   the one on its way; emulator_a of a chain reads after its phase the
   initial input and nothing more.  The thrust of a round is the last item
   of emulator_e's output iterator. *)
\* the values the Inputs of emulator k have read after the first
ValuesRead(k) ==
    LET read == SelectSeq(ReadBy(k), LAMBDA t : IsOk(Unwrap(t.item)))
    IN  [n \in 1..(Len(read) - 1) |-> Unwrap(read[n + 1].item).val]
\* the values the Outputs of emulator k have produced
OutputsOf(k) ==
    LET put == SelectSeq(StepsOf(k), LAMBDA t : IsOk(t.ret) /\ IsOp(t, 4))
    IN  [n \in 1..Len(put) |-> put[n].ret.val.value]

C28_ReadsInOrder ==
    /\ \A k \in 1..Amplifiers :
           ReadBy(k) # <<>> => ReadBy(k)[1].item = Some(Ok(phases[k]))
    /\ \A k \in 2..Amplifiers :
           /\ Len(ValuesRead(k)) <= Len(OutputsOf(k - 1))
           /\ Len(OutputsOf(k - 1)) <= Len(ValuesRead(k)) + 1
           /\ ValuesRead(k) = SubSeq(OutputsOf(k - 1), 1, Len(ValuesRead(k)))
    /\ wiring = "chain" =>
           /\ Len(ValuesRead(1)) <= 1
           /\ ValuesRead(1) # <<>> => ValuesRead(1) = <<initial_input>>
    /\ outputs = [n \in 1..Len(outputs) |->
                     IF IsOk(outputs[n]) THEN Ok(OutputsOf(Amplifiers)[n])
                     ELSE outputs[n]]
    /\ progress = "done" =>
           /\ outputs # <<>>
           /\ thrust_output = Some(outputs[Len(outputs)].val)
           /\ thrust_output = Some(OutputsOf(Amplifiers)[Len(OutputsOf(Amplifiers))])

\* the chain on echo_loop: emulator_b has read, after its phase, the two
\* outputs of emulator_a, which are emulator_a's phase and the initial input
C28_Witness ==
    /\ wiring = "chain"
    /\ intcode_memory = echo_loop
    /\ ValuesRead(2) = <<phases[1], initial_input>>
    /\ OutputsOf(1) = ValuesRead(2)
    /\ ValuesRead(1) = <<initial_input>>

\* a round of the chain on the amplifier program has ended with a thrust
C28_WitnessThrust ==
    /\ wiring = "chain"
    /\ intcode_memory = amplifier
    /\ progress = "done"
    /\ Len(OutputsOf(Amplifiers)) = 1
    /\ thrust_output = Some(OutputsOf(Amplifiers)[1])
    /\ \A k \in 2..Amplifiers : ValuesRead(k) = OutputsOf(k - 1)

-----------------------------------------------------------------------------
(* C29: a failing step leaves the memory and the instruction pointer exactly
   as they were before it; and a step that fails at the pointer check, in
   decoding, at the parameter-shortage check or while resolving a parameter
   (an Input whose destination is invalid, say) takes nothing from the input
   source. *)
\* the call c failed before its handler was reached
FailedEarly(c) ==
    /\ IsErr(c.ret)
    /\ \/ c.ret.err.kind \in {"InstructionPointerOutOfBounds", "InvalidInstruction",
                             "NotEnoughParametersForInstruction",
                             "InvalidParameterMode",
                             "UnexpectedParameterModeForWritable"}
       \/ IsBadLocation(c) /\ c.ret.err.position # 0

C29_FailingStepChangesNothing ==
    (Called /\ IsErr(Last.ret)) =>
        /\ memory = Last.memory
        /\ instruction_pointer = Last.instruction_pointer
        /\ FailedEarly(Last) => input_iter = Last.input_iter
        /\ ~FailedEarly(Last) => IsLate(Last)

\* an Input behind the jump whose destination slot holds -1, with a value
\* waiting in the input
C29_Witness ==
    /\ Called
    /\ Last.memory = <<1105, 1, 3, 3, -1, 0>>
    /\ Last.instruction_pointer = 3
    /\ Last.ret = Err(InvalidMemoryLocation(-1, 4))
    /\ Last.input_iter = <<Ok(7)>>
    /\ input_iter = <<Ok(7)>>
    /\ memory = Last.memory /\ instruction_pointer = 3

-----------------------------------------------------------------------------
(* C30: once a step of an emulator has failed with an error of its own (a
   step that did not ask its input for a value), every later step of that
   emulator starts from the same memory and pointer and fails with the same
   error, so every later pull on its output returns that error and the
   sequence does not end: last() is still pulling, every item of
   emulator_e's output from the first error on is that error, and in the
   feedback network each of them has been pushed onto the queue and none has
   been taken off it, so that the queue grows by one item with every pull. *)
OwnError(t) == IsErr(t.ret) /\ ~t.called_next
OwnErrors == {trace[i].ret : i \in {n \in 1..Len(trace) : OwnError(trace[n])}}
\* the items of emulator_e's output that are errors
ErrorItems == SelectSeq(outputs, IsErr)

C30_ErrorRepeats ==
    /\ \A i \in 1..Len(trace) :
           OwnError(trace[i]) =>
               /\ \A j \in LaterOf(i) :
                      /\ trace[j].ret = trace[i].ret
                      /\ trace[j].memory = trace[i].memory
                      /\ trace[j].instruction_pointer = trace[i].instruction_pointer
               /\ StateAfter(i) = <<trace[i].memory, trace[i].instruction_pointer>>
    /\ OwnErrors # {} =>
           /\ progress = "running"
           /\ \A n \in 1..Len(outputs) :
                  IsErr(outputs[n]) =>
                      /\ outputs[n] \in OwnErrors
                      /\ \A m \in n..Len(outputs) : outputs[m] = outputs[n]
           /\ wiring = "feedback" =>
                  /\ Len(emulator_e_a_loopback_pipe) >= Len(ErrorItems)
                  /\ ErrorItems = SubSeq(emulator_e_a_loopback_pipe,
                                         Len(emulator_e_a_loopback_pipe)
                                             - Len(ErrorItems) + 1,
                                         Len(emulator_e_a_loopback_pipe))

\* the feedback network on picky_amplifier with the phase 7 at emulator_c:
\* three pulls of last() have returned its error, and the queue holds three
C30_Witness ==
    /\ wiring = "feedback"
    /\ intcode_memory = picky_amplifier
    /\ phases[3] = 7
    /\ progress = "running"
    /\ outputs = <<Err(InvalidInstruction(0, 14)), Err(InvalidInstruction(0, 14)),
                   Err(InvalidInstruction(0, 14))>>
    /\ emulator_e_a_loopback_pipe = outputs
    /\ Len(SelectSeq(StepsOf(3), OwnError)) = 3

-----------------------------------------------------------------------------
(* C31: a taken jump (JumpIfTrue on a non-zero value, JumpIfFalse on zero)
   with a negative target fails in that step with
   InvalidMemoryLocation(the target, 0) and leaves pointer and memory as they
   were; a taken jump with a target not below the memory length returns
   Progressed with the pointer at the target, and it is the step after it
   that fails, with InstructionPointerOutOfBounds(the target). *)
\* the call c executed a jump that was taken
TakenJump(c) ==
    /\ PointerInside(c) /\ Matched(c)
    /\ Opcode(c) \in {5, 6}
    /\ SlotInside(c, 2) /\ ~IsShortage(c)
    /\ Resolves(c, 1) /\ Resolves(c, 2)
    /\ Taken(c)
Target(c) == Operand(c, 2)

C31_JumpTargets ==
    /\ (Called /\ TakenJump(Last) /\ Target(Last) < 0) =>
           /\ Last.ret = Err(InvalidMemoryLocation(Target(Last), 0))
           /\ instruction_pointer = Last.instruction_pointer
           /\ memory = Last.memory
    /\ (Called /\ TakenJump(Last) /\ Target(Last) >= Len(Last.memory)) =>
           /\ Last.ret = Ok(Success)
           /\ instruction_pointer = Target(Last)
           /\ memory = Last.memory
    /\ \A i \in 1..(Len(calls) - 1) :
           (TakenJump(calls[i]) /\ Target(calls[i]) >= Len(calls[i].memory)) =>
               /\ calls[i + 1].instruction_pointer = Target(calls[i])
               /\ calls[i + 1].ret = Err(InstructionPointerOutOfBounds(Target(calls[i])))
    /\ (Called /\ IsBadLocation(Last) /\ Last.ret.err.position = 0) =>
           TakenJump(Last) /\ Target(Last) < 0

\* a JumpIfFalse on zero to the target -1
C31_Witness ==
    /\ Called
    /\ Last.instruction_pointer = 0
    /\ TakenJump(Last)
    /\ Word(Last) = 1106
    /\ Last.ret = Err(InvalidMemoryLocation(-1, 0))
    /\ instruction_pointer = 0
    /\ memory = Last.memory

\* a JumpIfTrue to 99 in a memory of fewer cells, and the step after it
C31_WitnessPastEnd ==
    /\ Len(calls) = 2
    /\ TakenJump(calls[1]) /\ Target(calls[1]) = 99
    /\ Word(calls[1]) = 1105
    /\ calls[1].ret = Ok(Success)
    /\ calls[2].ret = Err(InstructionPointerOutOfBounds(99))

-----------------------------------------------------------------------------
(* C32: once Permutator::next() has returned None, every later call returns
   None, yielding nothing and changing nothing; and when it has returned None
   the array holds the values in the order given to Permutator::new, every
   swap undone, and the stack is empty. *)
\* this round of the loop is a call of next() that returns None at once
ReturnsNoneAgain ==
    /\ exhausted' = exhausted + 1
    /\ yielded' = yielded
    /\ array' = array
    /\ recursion_stack' = recursion_stack

C32_NoneIsSticky ==
    /\ [](exhausted >= 1 => array = values /\ recursion_stack = <<>>)
    /\ [][exhausted >= 1 => ReturnsNoneAgain]_vars

\* four values: all 24 orderings, then None twice, the array as constructed
C32_Witness ==
    /\ Len(values) = 4
    /\ exhausted = 2
    /\ Len(yielded) = 24
    /\ yielded[24] # values
    /\ array = values
    /\ recursion_stack = <<>>

-----------------------------------------------------------------------------
(* C33: in every reachable state of a Permutator over n values the
   recursion stack holds at most max(1, n) frames, every frame (start,
   swap_index, explored) has start <= swap_index <= n, and the array is a
   permutation of the values given to Permutator::new. *)
Max(a, b) == IF a >= b THEN a ELSE b
Frames == {recursion_stack[i] : i \in 1..Len(recursion_stack)}

C33_StackIsLinear ==
    /\ Len(recursion_stack) <= Max(1, Len(values))
    /\ \A frame \in Frames :
           /\ 0 <= frame[1]
           /\ frame[1] <= frame[2]
           /\ frame[2] <= Len(values)
    /\ IsPermutationOf(array, values)

\* four values: four frames on the stack, the array permuted
C33_Witness ==
    /\ Len(values) = 4
    /\ Len(recursion_stack) = 4
    /\ array # values
    /\ yielded # <<>>
    /\ exhausted = 0

\* a frame whose swap_index is n
C33_WitnessLastIndex ==
    /\ Len(values) = 4
    /\ \E frame \in Frames : frame[2] = 4 /\ frame[1] = 0

====
